---- MODULE Spec2Model ----
(***************************************************************************)
(* Model of jama-to-ppt: the acquisition engine (src/scraper.py), the      *)
(* content extractor (src/extractor.py) and the conversion driver          *)
(* (main.py).                                                              *)
(*                                                                         *)
(* Strings are modelled as sequences of tokens (see the text section);     *)
(* an acquired page is modelled by its origin and its length, the only     *)
(* things scraper.py looks at.                                             *)
(***************************************************************************)
EXTENDS Integers, Sequences, FiniteSets, TLC

VARIABLES
    HAS_PLAYWRIGHT,     \* scraper.py:23-27  module flag
    HAS_UC,             \* scraper.py:17-21  module flag
    pc,                 \* position of the running program (main.py / scrape / get_soup)
    caller,             \* who called scrape(): "main" or "get_soup"
    methods,            \* scraper.py:46-60  the list built by scrape()
    mi,                 \* scraper.py:62     index of the for loop over methods
    mpc,                \* position inside the strategy being run
    local,              \* what the running strategy holds / delivers (value or exception)
    html_content,       \* scraper.py:38     self.html_content
    successful_method,  \* scraper.py:39     self.successful_method
    open,               \* external sessions currently open (driver / browser processes)
    obtained,           \* the strategy's local html_content (page.content() / page_source / response.text)
    invoked,            \* log: strategies invoked so far, in order
    delivered,          \* log: what each finished invocation obtained and delivered to scrape()
    outcome,            \* how the last scrape() call ended (return value or raised error)
    soup,               \* main.py:94        the parsed document
    xk,                 \* extractor.py:28-39  the entry of the dict literal being evaluated
    values,             \* the values of the entries evaluated so far
    _structured_abstract,  \* extractor.py:21  self._structured_abstract (the cache)
    parses,                \* how many times extractor.py:186-203 has run in this instance
    article_data,       \* main.py:100       the mapping returned by extract_all()
    rendered,           \* main.py:141       generator.generate() has run
    limited             \* extractor.py:415-420  a call of _limit_words: arguments and result

vars == << HAS_PLAYWRIGHT, HAS_UC, pc, caller, methods, mi, mpc, local, html_content,
           successful_method, open, obtained, invoked, delivered, outcome, soup, xk, values,
           _structured_abstract, parses, article_data, rendered, limited >>

None == "None"

\* self.html_content = None (scraper.py:38): no markup held
NoneContent == [src |-> None, len |-> 0]

(***************************************************************************)
(* Acquired content.  scraper.py only tests truthiness and len() of the    *)
(* markup, so a page is [src, len]: which fetch produced it and how long   *)
(* it is.                                                                  *)
(***************************************************************************)
MinContent == 500
PlaywrightMinContent == 1000

\* lengths a fetch may deliver: empty, at / just above each threshold
ContentLens == {0, MinContent, MinContent + 1, PlaywrightMinContent, PlaywrightMinContent + 1}

Content(src, n) == [src |-> src, len |-> n]

\* Python truthiness of self.html_content (None and "" are falsy)
Truthy(c) == c.len > 0

PLAYWRIGHT == "Playwright (stealth)"
UNDETECTED == "Undetected Chrome"
REQUESTS   == "requests + BeautifulSoup"
HEADLESS   == "Selenium (headless)"
FULL       == "Selenium (full browser)"

\* scraper.py:46-60
BuildMethods(hasPw, hasUc) ==
    (IF hasPw THEN <<PLAYWRIGHT>> ELSE << >>)
    \o (IF hasUc THEN <<UNDETECTED>> ELSE << >>)
    \o <<REQUESTS, HEADLESS, FULL>>

\* first position inside each strategy
Entry(m) ==
    CASE m = PLAYWRIGHT -> "pw_with"
      [] m = UNDETECTED -> "uc_chrome"
      [] m = REQUESTS   -> "rq_get"
      [] m = HEADLESS   -> "sh_chrome"
      [] m = FULL       -> "sf_chrome"

Value(c) == [kind |-> "value", value |-> c]
Exc(what) == [kind |-> "exc", what |-> what]
NoLocal == [kind |-> "none"]

\* scraper.py:82  the message of the terminal error, word by word (in ASCII): a
\* literal, nothing is interpolated into it
TerminalError ==
    << "Tum", "yontemler", "denendi,", "makale", "cekilemedi.", "URL'yi", "kontrol",
       "edin", "veya", "erisim", "sorunu", "olabilir." >>

\* mutant of Accepts: the threshold of another check used in its place
AcceptsOverThousand(c) == Truthy(c) /\ c.len > PlaywrightMinContent

\* scraper.py:69  the success predicate of scrape()
Accepts(c) == Truthy(c) /\ c.len > MinContent

\* scraper.py:113  Playwright's own content check
PlaywrightAccepts(n) == n > PlaywrightMinContent

(***************************************************************************)
(* Text.  A Python str is a sequence of atoms.  An atom is one whitespace  *)
(* character, one punctuation character, or a run of characters that the   *)
(* program never looks inside (a word, a number).  The vocabulary is       *)
(* chosen so that every literal of every pattern in extractor.py matches   *)
(* whole atoms: each character class or literal of a pattern is then the   *)
(* set of atoms it matches.                                                *)
(***************************************************************************)
WS == " "
DOT == "."
SEMI == ";"
COLON == ":"

\* str.strip(): leading and trailing whitespace removed
RECURSIVE LStrip(_)
LStrip(t) == IF t # << >> /\ Head(t) = WS THEN LStrip(Tail(t)) ELSE t

RECURSIVE RStrip(_)
RStrip(t) == IF t # << >> /\ t[Len(t)] = WS THEN RStrip(SubSeq(t, 1, Len(t) - 1)) ELSE t

Strip(t) == RStrip(LStrip(t))

\* length of the run of atoms from position i on that satisfy "is whitespace = ws"
RECURSIVE RunLen(_, _, _)
RunLen(t, i, ws) ==
    IF i <= Len(t) /\ ((t[i] = WS) = ws) THEN 1 + RunLen(t, i + 1, ws) ELSE 0

\* str.split() without argument: the maximal runs of non-whitespace
RECURSIVE SplitWordsFrom(_, _)
SplitWordsFrom(t, i) ==
    IF i > Len(t) THEN << >>
    ELSE IF t[i] = WS THEN SplitWordsFrom(t, i + RunLen(t, i, TRUE))
    ELSE LET n == RunLen(t, i, FALSE)
         IN  << SubSeq(t, i, i + n - 1) >> \o SplitWordsFrom(t, i + n)

SplitWords(t) == SplitWordsFrom(t, 1)

WordCount(t) == Len(SplitWords(t))

\* sep.join(parts)
RECURSIVE Join(_, _)
Join(parts, sep) ==
    IF parts = << >> THEN << >>
    ELSE IF Len(parts) = 1 THEN parts[1]
    ELSE parts[1] \o sep \o Join(Tail(parts), sep)

\* text.split('.')[0]: everything before the first occurrence of the atom
RECURSIVE BeforeFirst(_, _)
BeforeFirst(t, a) ==
    IF t = << >> \/ Head(t) = a THEN << >> ELSE << Head(t) >> \o BeforeFirst(Tail(t), a)

\* the '...' that _limit_words appends: three period characters
ELLIPSIS == << DOT, DOT, DOT >>

\* mutant of _limit_words: the marker is appended as a word of its own
LimitWordsSpacedMarker(text, max_words) ==
    LET words == SplitWords(text)
    IN  IF Len(words) > max_words
          THEN Join(SubSeq(words, 1, max_words), << WS >>) \o << WS >> \o ELLIPSIS
          ELSE text

\* mutant of _limit_words: a text within the limit is returned with its words re-joined
LimitWordsNormalised(text, max_words) ==
    LET words == SplitWords(text)
    IN  IF Len(words) > max_words
          THEN Join(SubSeq(words, 1, max_words), << WS >>) \o ELLIPSIS
          ELSE Join(words, << WS >>)

\* mutant of _limit_words: one word too many is kept
LimitWordsOneMore(text, max_words) ==
    LET words == SplitWords(text)
    IN  IF Len(words) > max_words
          THEN Join(SubSeq(words, 1, max_words + 1), << WS >>) \o ELLIPSIS
          ELSE text

\* extractor.py:415-420
_limit_words(text, max_words) ==
    LET words == SplitWords(text)
    IN  IF Len(words) > max_words
          THEN Join(SubSeq(words, 1, max_words), << WS >>) \o ELLIPSIS
          ELSE text

(***************************************************************************)
(* Regular expressions, with the semantics of Python's re: a pattern is a  *)
(* sequence of nodes matched by backtracking, alternatives in order,       *)
(* greedy quantifiers longest first, lazy ones shortest first; search      *)
(* returns the leftmost match.                                             *)
(***************************************************************************)
In(S)      == [t |-> "set", s |-> S, neg |-> FALSE]        \* one atom of S
NotIn(S)   == [t |-> "set", s |-> S, neg |-> TRUE]         \* one atom not in S
Unbounded  == 1000
Plus(n)    == [t |-> "rep", n |-> n, min |-> 1, max |-> Unbounded, lazy |-> FALSE]   \* n+
Star(n)    == [t |-> "rep", n |-> n, min |-> 0, max |-> Unbounded, lazy |-> FALSE]   \* n*
PlusLazy(n) == [t |-> "rep", n |-> n, min |-> 1, max |-> Unbounded, lazy |-> TRUE]   \* n+?
Opt(n)     == [t |-> "rep", n |-> n, min |-> 0, max |-> 1, lazy |-> FALSE]           \* n?
Alt(alts)  == [t |-> "alt", a |-> alts]                    \* (?:a1|a2|...), each a sequence
Open(g)    == [t |-> "open", g |-> g]                      \* ( of group g
Close(g)   == [t |-> "close", g |-> g]                     \* ) of group g
Eos        == [t |-> "eos"]                                \* $
Bos        == [t |-> "bos"]                                \* ^
Bow(W)     == [t |-> "bow", s |-> W]                       \* \b before a word character

NoMatch == [ok |-> FALSE, start |-> 0, end |-> 0, caps |-> << <<0, 0>>, <<0, 0>> >>]
NoCaps == << <<0, 0>>, <<0, 0>> >>

Takes(n, t, pos) == pos <= Len(t) /\ ((t[pos] \in n.s) # n.neg)

\* the number of atoms from pos on that a repetition node can take at most
Run(n, t, pos) ==
    LET most == IF n.max < Len(t) - pos + 1 THEN n.max ELSE Len(t) - pos + 1
    IN  Cardinality({k \in 1..most : \A j \in 0..(k - 1) : Takes(n.n, t, pos + j)})

RECURSIVE MatchAt(_, _, _, _)
RECURSIVE MatchAlt(_, _, _, _, _, _)
RECURSIVE MatchRep(_, _, _, _, _, _, _)

\* the atoms from pos on match the node sequence re; caps holds the groups so far
MatchAt(t, re, pos, caps) ==
    IF re = << >> THEN [ok |-> TRUE, start |-> 0, end |-> pos, caps |-> caps]
    ELSE
    LET n == Head(re)
        rest == Tail(re)
    IN  CASE n.t = "set" ->
               IF Takes(n, t, pos) THEN MatchAt(t, rest, pos + 1, caps) ELSE NoMatch
          [] n.t = "rep" ->
               LET run == Run(n, t, pos)
               IN  IF run < n.min THEN NoMatch
                   ELSE IF n.lazy THEN MatchRep(t, rest, pos, caps, n.min, run, 1)
                   ELSE MatchRep(t, rest, pos, caps, run, n.min, -1)
          [] n.t = "alt" -> MatchAlt(t, n.a, 1, rest, pos, caps)
          [] n.t = "open" ->
               MatchAt(t, rest, pos, [caps EXCEPT ![n.g] = << pos, pos >>])
          [] n.t = "close" ->
               MatchAt(t, rest, pos, [caps EXCEPT ![n.g] = << caps[n.g][1], pos >>])
          [] n.t = "eos" -> IF pos = Len(t) + 1 THEN MatchAt(t, rest, pos, caps) ELSE NoMatch
          [] n.t = "bos" -> IF pos = 1 THEN MatchAt(t, rest, pos, caps) ELSE NoMatch
          [] n.t = "bow" ->
               IF pos = 1 \/ t[pos - 1] \notin n.s THEN MatchAt(t, rest, pos, caps)
               ELSE NoMatch

\* a repetition that takes k atoms, then k + step, ... up to last: the first count after
\* which the rest of the pattern matches (longest first if greedy, shortest first if lazy)
MatchRep(t, rest, pos, caps, k, last, step) ==
    LET m == MatchAt(t, rest, pos + k, caps)
    IN  IF m.ok \/ k = last THEN m
        ELSE MatchRep(t, rest, pos, caps, k + step, last, step)

MatchAlt(t, alts, i, rest, pos, caps) ==
    IF i > Len(alts) THEN NoMatch
    ELSE LET m == MatchAt(t, alts[i] \o rest, pos, caps)
         IN  IF m.ok THEN m ELSE MatchAlt(t, alts, i + 1, rest, pos, caps)

\* re.search(re, t) looking from position from on: the leftmost match
RECURSIVE SearchFrom(_, _, _)
SearchFrom(t, re, from) ==
    IF from > Len(t) + 1 THEN NoMatch
    ELSE LET m == MatchAt(t, re, from, NoCaps)
         IN  IF m.ok THEN [m EXCEPT !.start = from] ELSE SearchFrom(t, re, from + 1)

Search(t, re) == SearchFrom(t, re, 1)

\* match.group(g)
Group(t, m, g) == SubSeq(t, m.caps[g][1], m.caps[g][2] - 1)

\* re.sub(re, '', t): every non-overlapping match removed
RECURSIVE SubFrom(_, _, _)
SubFrom(t, re, from) ==
    LET m == SearchFrom(t, re, from)
    IN  IF ~m.ok THEN SubSeq(t, from, Len(t))
        ELSE IF m.end > m.start
               THEN SubSeq(t, from, m.start - 1) \o SubFrom(t, re, m.end)
        ELSE IF m.start > Len(t) THEN SubSeq(t, from, Len(t))
        ELSE SubSeq(t, from, m.start) \o SubFrom(t, re, m.start + 1)

Sub(t, re) == SubFrom(t, re, 1)

\* re.split(re, t) for patterns that never match the empty string
RECURSIVE SplitFrom(_, _, _)
SplitFrom(t, re, from) ==
    LET m == SearchFrom(t, re, from)
    IN  IF ~m.ok \/ m.end = m.start THEN << SubSeq(t, from, Len(t)) >>
        ELSE << SubSeq(t, from, m.start - 1) >> \o SplitFrom(t, re, m.end)

Split(t, re) == SplitFrom(t, re, 1)

(***************************************************************************)
(* The vocabulary, and the atoms each literal / character class of the     *)
(* patterns of extractor.py matches (all field patterns are IGNORECASE).   *)
(* Texts are well formed: two atoms made of word characters are never      *)
(* adjacent (they would be one word), and "=" only follows "n" or "p".     *)
(***************************************************************************)
DigitAtoms == {"0", "2", "5", "40", "60", "75", "500"}                \* \d+
PlainWords == {"w", "alpha", "beta", "gamma", "delta", "adults", "hypertension", "data",
               "not", "found", "Finding", "to", "and", "was", "et", "al", "Smith", "Jones",
               "Brown", "Lee", "Network", "Trial"}
KeyWords == {"patients", "Patients", "participants", "Participants", "Population",
             "with", "aged", "according", "conducted", "in", "at", "hospital",
             "Intervention", "Interventions", "received", "compared", "Setting", "Methods",
             "Main", "Outcomes", "Measures", "Primary", "Outcome", "outcome", "measured",
             "mortality", "Results", "Conclusions", "p", "n", "days", "JAMA"}
WordAtoms == DigitAtoms \cup PlainWords \cup KeyWords                  \* runs of \w

Space == In({WS})                                                      \* \s
AnyAtom == NotIn({})                                                       \* .
NotDot == NotIn({DOT})                                                 \* [^.]
NotDotSemi == NotIn({DOT, SEMI})                                       \* [^.;]
ColonDotSpace == In({COLON, DOT, WS})                                  \* [:.\s]
Digit == In(DigitAtoms)

\* participants?|patients?|individuals?|subjects?
ParticipantWord == In({"participants", "Participants", "patients", "Patients",
                       "participant", "patient", "individuals", "individual",
                       "subjects", "subject"})

(***************************************************************************)
(* _extract_population, structured path  (extractor.py:243-247, 254)       *)
(***************************************************************************)
\* (\d+\s+(?:participants?|patients?|individuals?|subjects?)[^.;]+?
\*   (?:age|years|COVID|ARDS|with|mean)[^.;]+)
\* an atom that continues after the keyword ("aged") supplies the final [^.;]+ itself
PopStruct1 ==
    << Open(1), Plus(Digit), Plus(Space), ParticipantWord, PlusLazy(NotDotSemi),
       Alt(<< << In({"aged", "ages", "meaning", "within"}), Star(NotDotSemi) >>,
              << In({"age", "years", "COVID", "ARDS", "with", "mean"}), Plus(NotDotSemi) >> >>),
       Close(1) >>

\* (Patients? with [^.;]+)
PopStruct2 ==
    << Open(1), In({"Patients", "patients", "Patient", "patient"}), Space, In({"with"}),
       Space, Plus(NotDotSemi), Close(1) >>

\* (\d+\s+(?:participants?|patients?)[^.;]+)
\* "patients" read as "patient" leaves its "s" to [^.;]+
PopStruct3 ==
    << Open(1), Plus(Digit), Plus(Space),
       Alt(<< << In({"participants", "Participants", "patients", "Patients"}),
                 Star(NotDotSemi) >>,
              << In({"participant", "patient"}), Plus(NotDotSemi) >> >>),
       Close(1) >>

\* \s+(?:according to|enrolled from|Final).*$
PopCleanup ==
    << Plus(Space),
       Alt(<< << In({"according"}), Space, In({"to"}) >>,
              << In({"enrolled"}), Space, In({"from"}) >>,
              << In({"Final", "final"}) >> >>),
       Star(AnyAtom), Eos >>

(***************************************************************************)
(* _extract_population, fallback path  (extractor.py:263-267)              *)
(***************************************************************************)
\* (?:Participants?|Population|Patients?)[:.\s]+([^.]+?)(?:\.|Intervention|Setting|Methods)
PopFallback1 ==
    << In({"Participants", "participants", "Participant", "participant", "Population",
           "population", "Patients", "patients", "Patient", "patient"}),
       Plus(ColonDotSpace), Open(1), PlusLazy(NotDot), Close(1),
       Alt(<< << In({DOT}) >>,
              << In({"Intervention", "Interventions", "Setting", "Methods"}) >> >>) >>

\* (\d+\s+(?:participants?|patients?|individuals?|subjects?)(?:[^.]+?)
\*   (?:aged?|mean age|median age)[^.]+)
\* "aged" read as "age" leaves its "d" to [^.]+
PopFallback2 ==
    << Open(1), Plus(Digit), Plus(Space), ParticipantWord, PlusLazy(NotDot),
       Alt(<< << In({"aged"}), Star(NotDot) >>,
              << In({"age"}), Plus(NotDot) >>,
              << In({"mean", "median"}), Space, In({"age"}), Plus(NotDot) >> >>),
       Close(1) >>

\* (n\s*=\s*\d+[^.]+?)(?:\.|;)
PopFallback3 ==
    << Open(1), In({"n"}), Star(Space), In({"="}), Star(Space), Plus(Digit),
       PlusLazy(NotDot), Close(1), In({DOT, SEMI}) >>

(***************************************************************************)
(* _extract_intervention, fallback path  (extractor.py:291-295)            *)
(***************************************************************************)
\* Intervention[:.\s]+([^.]+?)(?:\.|Main Outcomes?|Results?|Setting)
IntFallback1 ==
    << In({"Intervention", "intervention"}), Plus(ColonDotSpace),
       Open(1), PlusLazy(NotDot), Close(1),
       Alt(<< << In({DOT}) >>,
              << In({"Main"}), Space, In({"Outcomes", "Outcome", "outcome"}) >>,
              << In({"Results", "Result"}) >>,
              << In({"Setting"}) >> >>) >>

\* (?:received|underwent|assigned to|randomized to)\s+([^.]+?)(?:\.|;|compared)
IntFallback2 ==
    << Alt(<< << In({"received"}) >>, << In({"underwent"}) >>,
              << In({"assigned"}), Space, In({"to"}) >>,
              << In({"randomized"}), Space, In({"to"}) >> >>),
       Plus(Space), Open(1), PlusLazy(NotDot), Close(1),
       In({DOT, SEMI, "compared"}) >>

\* (?:Treatment|Therapy|Drug|Medication)[:.\s]+([^.]+?)(?:\.|;)
IntFallback3 ==
    << In({"Treatment", "Therapy", "Drug", "Medication"}), Plus(ColonDotSpace),
       Open(1), PlusLazy(NotDot), Close(1), In({DOT, SEMI}) >>

(***************************************************************************)
(* _extract_setting  (extractor.py:315, 324-328)                           *)
(***************************************************************************)
\* (?:conducted|performed|carried out|in)\s+(.+?)(?:\.|;|Participants)
\* "in" also ends the atom "Main"
SetStruct ==
    << Alt(<< << In({"conducted"}) >>, << In({"performed"}) >>,
              << In({"carried"}), Space, In({"out"}) >>,
              << In({"in", "Main"}) >> >>),
       Plus(Space), Open(1), PlusLazy(AnyAtom), Close(1),
       In({DOT, SEMI, "Participants", "participants"}) >>

\* Setting[:.\s]+([^.]+?)(?:\.|Participants?|Methods?)
SetFallback1 ==
    << In({"Setting"}), Plus(ColonDotSpace), Open(1), PlusLazy(NotDot), Close(1),
       In({DOT, "Participants", "participants", "Participant", "Methods", "Method"}) >>

\* (?:conducted|performed|carried out)\s+(?:at|in)\s+([^.]+?)(?:\.|;)
SetFallback2 ==
    << Alt(<< << In({"conducted"}) >>, << In({"performed"}) >>,
              << In({"carried"}), Space, In({"out"}) >> >>),
       Plus(Space), In({"at", "in"}), Plus(Space),
       Open(1), PlusLazy(NotDot), Close(1), In({DOT, SEMI}) >>

\* (?:hospital|clinic|center|facility|institution)s?\s+(?:in|at|from)\s+([^.]+?)(?:\.|;)
SetFallback3 ==
    << In({"hospital", "hospitals", "clinic", "center", "facility", "institution"}),
       Plus(Space), In({"in", "at", "from"}), Plus(Space),
       Open(1), PlusLazy(NotDot), Close(1), In({DOT, SEMI}) >>

(***************************************************************************)
(* _extract_primary_outcome, fallback path  (extractor.py:352-356)         *)
(***************************************************************************)
\* (?:Main Outcomes? and Measures?|Primary Outcome|Primary Endpoint)[:.\s]+([^.]+?)(?:\.|Results?)
OutFallback1 ==
    << Alt(<< << In({"Main"}), Space, In({"Outcomes", "Outcome", "outcome"}), Space,
                 In({"and"}), Space, In({"Measures", "Measure"}) >>,
              << In({"Primary"}), Space, In({"Outcome", "outcome"}) >>,
              << In({"Primary"}), Space, In({"Endpoint"}) >> >>),
       Plus(ColonDotSpace), Open(1), PlusLazy(NotDot), Close(1),
       In({DOT, "Results", "Result"}) >>

\* (?:measured|assessed|evaluated)\s+([^.]+?mortality|[^.]+?survival|[^.]+?incidence)
OutFallback2 ==
    << In({"measured", "assessed", "evaluated"}), Plus(Space), Open(1),
       Alt(<< << PlusLazy(NotDot), In({"mortality"}) >>,
              << PlusLazy(NotDot), In({"survival"}) >>,
              << PlusLazy(NotDot), In({"incidence"}) >> >>),
       Close(1) >>

\* (?:outcome was|endpoint was)\s+([^.]+?)(?:\.|;)
OutFallback3 ==
    << In({"outcome", "Outcome", "endpoint"}), Space, In({"was"}), Plus(Space),
       Open(1), PlusLazy(NotDot), Close(1), In({DOT, SEMI}) >>

(***************************************************************************)
(* _extract_finding  (extractor.py:375, 382, 395, 399, 404)                *)
(***************************************************************************)
\* \.(?:\s+|\s*$)
SentenceEnd == << In({DOT}), Alt(<< << Plus(Space) >>, << Star(Space), Eos >> >>) >>

\* [.;]\s+
FallbackSentenceEnd == << In({DOT, SEMI}), Plus(Space) >>

\* \d+\.?\d*%   \bp\s*[<>=]\s*0\.\d+   \bn\s*=\s*\d+   OR\s*=|HR\s*=|RR\s*=
MarkerAlts ==
    << << Plus(Digit), Opt(In({DOT})), Star(Digit), In({"%"}) >>,
       << Bow(WordAtoms), In({"p", "P"}), Star(Space), In({"<", ">", "="}), Star(Space),
          In({"0"}), In({DOT}), Plus(Digit) >>,
       << Bow(WordAtoms), In({"n", "N"}), Star(Space), In({"="}), Star(Space), Plus(Digit) >>,
       << In({"OR", "HR", "RR"}), Star(Space), In({"="}) >> >>

\* extractor.py:404  the markers of the fallback path
FallbackMarker == << Alt(MarkerAlts) >>

\* extractor.py:382  the structured path adds  95%\s*CI  and  \d+\s+days
StructMarker ==
    << Alt(MarkerAlts \o
           << << In({"95"}), In({"%"}), Star(Space), In({"CI"}) >>,
              << Plus(Digit), Plus(Space), In({"days"}) >> >>) >>

\* Results?[:.\s]+(.+?)(?:Conclusions?|Discussion|$)
ResultsSpan ==
    << In({"Results", "Result"}), Plus(ColonDotSpace), Open(1), PlusLazy(AnyAtom), Close(1),
       Alt(<< << In({"Conclusions", "Conclusion"}) >>, << In({"Discussion"}) >>,
              << Eos >> >>) >>

(***************************************************************************)
(* The document model.  An optional value is a sequence of length 0 or 1;  *)
(* an element that may lack an attribute is an optional optional value:    *)
(* Absent (no element), NoAttr (element, attribute missing), Attr(v).      *)
(***************************************************************************)
Absent == << >>
Some(v) == << v >>
NoAttr == << << >> >>
Attr(v) == << << v >> >>
IsPresent(o) == Len(o) = 1

\* Python's None as a value of the result mapping
PyNone == << "<None>" >>

Returned(v) == [kind |-> "value", value |-> v]
Raised(e) == [kind |-> "raise", error |-> e]

\* T(<<"a", "b">>) is the text "a b": the words joined by single spaces
T(words) == Join([i \in 1..Len(words) |-> << words[i] >>], << WS >>)

(***************************************************************************)
(* _extract_title  (extractor.py:46-72)                                    *)
(***************************************************************************)
\* extractor.py:49-56  the selectors; meta is the value of  'meta' in selector
TitleSelectors ==
    << [css |-> "h1.meta-article-title",     meta |-> TRUE],
       [css |-> "h1[property=name]",         meta |-> FALSE],
       [css |-> "h1.article-header__title",  meta |-> FALSE],
       [css |-> "h1.content-title",          meta |-> FALSE],
       [css |-> "meta[property=og:title]",   meta |-> TRUE],
       [css |-> "title",                     meta |-> FALSE] >>

\* \s*\|\s*JAMA.*$
TitleBarJama == << Star(Space), In({"|"}), Star(Space), In({"JAMA"}), Star(AnyAtom), Eos >>
\* \s*-\s*JAMA.*$
TitleDashJama == << Star(Space), In({"-"}), Star(Space), In({"JAMA"}), Star(AnyAtom), Eos >>

\* extractor.py:64-66
CleanTitle(title) == Strip(Sub(Sub(title, TitleBarJama), TitleDashJama))

RECURSIVE TitleFrom(_, _)
TitleFrom(doc, k) ==
    IF k > Len(TitleSelectors) THEN Returned(T(<< "Article", "Title", "Not", "Found" >>))
    ELSE LET sel == TitleSelectors[k] IN
         IF sel.meta \/ sel.css = "title"
           THEN IF sel.meta
                  THEN IF IsPresent(doc.og_title)
                         THEN IF IsPresent(doc.og_title[1])
                                THEN Returned(CleanTitle(doc.og_title[1][1]))
                                ELSE Raised("TypeError")     \* re.sub on None
                         ELSE TitleFrom(doc, k + 1)
                  ELSE IF IsPresent(doc.title_el)
                         THEN Returned(CleanTitle(doc.title_el[1]))
                         ELSE TitleFrom(doc, k + 1)
           ELSE IF IsPresent(doc.h1[k])
                  THEN Returned(Strip(doc.h1[k][1]))
                  ELSE TitleFrom(doc, k + 1)

_extract_title(doc) == TitleFrom(doc, 1)

(***************************************************************************)
(* _extract_authors  (extractor.py:74-103)                                 *)
(***************************************************************************)
Take(q, n) == SubSeq(q, 1, IF Len(q) < n THEN Len(q) ELSE n)

\* extractor.py:91-95  the first of the three element selectors that matches anything
RECURSIVE AuthorElements(_, _)
AuthorElements(doc, k) ==
    IF k > Len(doc.author_els) THEN << >>
    ELSE IF doc.author_els[k] # << >>
           THEN [i \in 1..Len(Take(doc.author_els[k], 3)) |-> Some(Strip(doc.author_els[k][i]))]
    ELSE AuthorElements(doc, k + 1)

\* extractor.py:86-95  the (at most three) names; a meta without content gives None
AuthorList(doc) ==
    IF doc.citation_author # << >> THEN Take(doc.citation_author, 3)
    ELSE AuthorElements(doc, 1)

_extract_authors(doc) ==
    LET authors == AuthorList(doc)
        names == [i \in 1..Len(authors) |-> IF IsPresent(authors[i]) THEN authors[i][1] ELSE << >>]
    IN  IF authors = << >> THEN Returned(T(<< "Authors", "Not", "Found" >>))
        ELSE IF \E i \in 1..Len(authors) : ~IsPresent(authors[i])
               THEN Raised("TypeError")                     \* ', '.join of a None
        ELSE IF Len(authors) >= 3
               THEN Returned(Join(names, << ",", WS >>) \o << WS, "et", WS, "al", DOT >>)
        ELSE Returned(Join(names, << ",", WS >>))

(***************************************************************************)
(* _extract_date, _format_date  (extractor.py:105-149)                     *)
(***************************************************************************)
\* the date strings of the model and what datetime.strptime / the year-month
\* pattern make of them (extractor.py:132-144); any other string comes back as it is
IsoDate == << "2020", "-", "05", "-", "01" >>          \* 2020-05-01   %Y-%m-%d
IsoStamp == << "2020", "-", "05", "-", "01", "T", "00:00" >>   \* matches (\d{4})-(\d{2}) only
LooseDate == << "Spring", WS, "2020" >>                \* no format, no pattern
MonthYear == << "May", WS, "2020" >>

\* extractor.py:128-149; None makes strptime raise TypeError, which is swallowed
_format_date(date_str) ==
    IF ~IsPresent(date_str) THEN PyNone
    ELSE IF date_str[1] \in {IsoDate, IsoStamp} THEN MonthYear
    ELSE date_str[1]

\* extractor.py:107-112; meta is  'meta' in selector, name the parts of
\* selector.split('[name="') after the first
DateSelectors ==
    << [css |-> "meta[name=citation_publication_date]", meta |-> TRUE,
        name |-> << "citation_publication_date" >>],
       [css |-> "meta[name=article:published_time]", meta |-> TRUE,
        name |-> << "article:published_time" >>],
       [css |-> "time[datetime]", meta |-> FALSE, name |-> << >>],
       [css |-> ".meta-article-date", meta |-> TRUE, name |-> << >>] >>

\* datetime.now().strftime("%B %Y")
CurrentMonthYear == << "November", WS, "2026" >>

\* soup.find('meta', attrs={'name': name})
DateMeta(doc, name) ==
    IF name = "citation_publication_date" THEN doc.citation_publication_date
    ELSE doc.published_time

RECURSIVE DateFrom(_, _)
DateFrom(doc, k) ==
    IF k > Len(DateSelectors) THEN Returned(CurrentMonthYear)
    ELSE LET sel == DateSelectors[k] IN
         IF sel.meta
           THEN IF sel.name = << >> THEN Raised("IndexError")     \* ...split(...)[1]
                ELSE LET element == DateMeta(doc, sel.name[1])
                     IN  IF IsPresent(element) THEN Returned(_format_date(element[1]))
                         ELSE DateFrom(doc, k + 1)
           ELSE LET element == IF k = 3 THEN doc.time_el ELSE doc.date_el
                IN  IF IsPresent(element) THEN Returned(_format_date(Some(element[1])))
                    ELSE DateFrom(doc, k + 1)

_extract_date(doc) == DateFrom(doc, 1)

(***************************************************************************)
(* _extract_doi, _clean_doi  (extractor.py:151-178)                        *)
(***************************************************************************)
\* ^doi:\s*   (IGNORECASE)
DoiPrefix == << Bos, In({"doi:", "DOI:"}), Star(Space) >>
\* https?://doi\.org/
DoiUrl == << In({"https://doi.org/", "http://doi.org/"}) >>

_clean_doi(doi) == Strip(Sub(Sub(doi, DoiPrefix), DoiUrl))

_extract_doi(doc) ==
    IF IsPresent(doc.citation_doi)
      THEN IF IsPresent(doc.citation_doi[1]) THEN Returned(_clean_doi(doc.citation_doi[1][1]))
           ELSE Raised("TypeError")                          \* re.sub on None
    ELSE IF IsPresent(doc.doi_a) THEN Returned(_clean_doi(doc.doi_a[1]))
    ELSE IF IsPresent(doc.doi_el) THEN Returned(_clean_doi(Strip(doc.doi_el[1])))
    ELSE Returned(T(<< "DOI", "Not", "Found" >>))

(***************************************************************************)
(* _get_structured_abstract  (extractor.py:180-207)                        *)
(* The mapping is a sequence of [label, body] in insertion order.          *)
(***************************************************************************)
H3(label) == [tag |-> "h3", label |-> label, body |-> << >>]
P(body) == [tag |-> "p", label |-> "", body |-> body]

HasKey(st, k) == \E i \in 1..Len(st) : st[i].label = k
Lookup(st, k) == st[CHOOSE i \in 1..Len(st) : st[i].label = k].body

\* sections[k] = v
Put(st, k, v) ==
    IF HasKey(st, k)
      THEN [i \in 1..Len(st) |-> IF st[i].label = k THEN [label |-> k, body |-> v] ELSE st[i]]
      ELSE Append(st, [label |-> k, body |-> v])

\* extractor.py:200  what a paragraph makes of the body of the current section
SectionBody(old, paragraph) == paragraph

\* a test that attaches a paragraph whether or not a heading came before it
AttachesAlways(current) == TRUE

\* extractor.py:199  "and current_section": a paragraph is attached only under a heading
\* with a non-empty text
Attaches(current) == current # ""

\* extractor.py:195-200
RECURSIVE ParseSections(_, _, _)
ParseSections(elems, current, st) ==
    IF elems = << >> THEN st
    ELSE LET e == Head(elems) IN
         IF e.tag = "h3"
           THEN ParseSections(Tail(elems), e.label, Put(st, e.label, << >>))
         ELSE IF Attaches(current)
           THEN ParseSections(Tail(elems), current,
                              Put(st, current, SectionBody(Lookup(st, current), Strip(e.body))))
         ELSE ParseSections(Tail(elems), current, st)

\* extractor.py:186-207 without the cache: the mapping of a document
Structured(doc) ==
    IF ~IsPresent(doc.citation_abstract) THEN << >>
    ELSE IF ~IsPresent(doc.citation_abstract[1]) THEN << >>     \* get('content', '')
    ELSE ParseSections(doc.citation_abstract[1][1], "", << >>)

\* extractor.py:217-230  the first abstract selector that matches, else ''
RECURSIVE AbstractElement(_, _)
AbstractElement(doc, k) ==
    IF k > Len(doc.abstract_els) THEN << >>
    ELSE IF IsPresent(doc.abstract_els[k]) THEN Strip(doc.abstract_els[k][1])
    ELSE AbstractElement(doc, k + 1)

\* extractor.py:209-230
_get_abstract_text(st, doc) ==
    IF st # << >> THEN Join([i \in 1..Len(st) |-> st[i].body], << WS >>)
    ELSE AbstractElement(doc, 1)

(***************************************************************************)
(* The six field extractors  (extractor.py:232-413).  Each takes the       *)
(* structured abstract st and the document (for the fallback text).        *)
(***************************************************************************)
PopulationLimit == 15
InterventionLimit == 15
SettingLimit == 10
PrimaryOutcomeLimit == 20
FindingLimit == 15

PopulationKeys == << "Participants", "Design, Setting, and Participants", "Population" >>
InterventionKeys == << "Interventions", "Intervention", "Exposures" >>
SettingKeys == << "Setting", "Design, Setting, and Participants" >>
PrimaryOutcomeKeys == << "Main Outcomes and Measures", "Primary Outcome", "Primary Endpoint",
                         "Main Outcome Measures" >>

PopulationNotFound == T(<< "Population", "data", "not", "found" >>)
InterventionNotFound == T(<< "Intervention", "data", "not", "found" >>)
SettingNotFound == T(<< "Setting", "data", "not", "found" >>)
PrimaryOutcomeNotFound == T(<< "Primary", "outcome", "not", "found" >>)
FindingNotFound(number) == T(<< "Finding", IF number = 1 THEN "1" ELSE "2", "not", "found" >>)

\* a loop in which the last key present decides
LastPresent(st, keys, i) ==
    IF \E j \in i..Len(keys) : HasKey(st, keys[j])
      THEN CHOOSE j \in i..Len(keys) :
               HasKey(st, keys[j]) /\ \A m \in (j + 1)..Len(keys) : ~HasKey(st, keys[m])
      ELSE 0

\* for key in keys: if key in structured  -- the index of the first key present, or 0
RECURSIVE FirstPresent(_, _, _)
FirstPresent(st, keys, i) ==
    IF i > Len(keys) THEN 0
    ELSE IF HasKey(st, keys[i]) THEN i
    ELSE FirstPresent(st, keys, i + 1)

\* for pattern in patterns: re.search  -- the index of the first pattern that matches, or 0
RECURSIVE FirstMatching(_, _, _)
FirstMatching(text, patterns, i) ==
    IF i > Len(patterns) THEN 0
    ELSE IF Search(text, patterns[i]).ok THEN i
    ELSE FirstMatching(text, patterns, i + 1)

\* a fallback loop that ends without a sentinel
FallbackNoSentinel(abstract, patterns, limit, sentinel) ==
    LET j == FirstMatching(abstract, patterns, 1)
    IN  IF j > 0
          THEN _limit_words(Strip(Group(abstract, Search(abstract, patterns[j]), 1)), limit)
          ELSE << >>

\* the fallback loop shared by the four fields: first matching pattern, group 1 stripped
\* and limited, else the sentinel
Fallback(abstract, patterns, limit, sentinel) ==
    LET j == FirstMatching(abstract, patterns, 1)
    IN  IF j > 0
          THEN _limit_words(Strip(Group(abstract, Search(abstract, patterns[j]), 1)), limit)
          ELSE sentinel

\* text.split('.')[0]
FirstSentence(text) == BeforeFirst(text, DOT)

\* extractor.py:232-275
_extract_population(st, doc) ==
    LET k == FirstPresent(st, PopulationKeys, 1) IN
    IF k > 0
      THEN LET text == Lookup(st, PopulationKeys[k])
               patterns == << PopStruct1, PopStruct2, PopStruct3 >>
               j == FirstMatching(text, patterns, 1)
           IN  IF j > 0
                 THEN _limit_words(
                          Sub(Strip(Group(text, Search(text, patterns[j]), 1)), PopCleanup),
                          PopulationLimit)
                 ELSE _limit_words(FirstSentence(text), PopulationLimit)
      ELSE Fallback(_get_abstract_text(st, doc),
                    << PopFallback1, PopFallback2, PopFallback3 >>,
                    PopulationLimit, PopulationNotFound)

\* extractor.py:277-303
_extract_intervention(st, doc) ==
    LET k == FirstPresent(st, InterventionKeys, 1) IN
    IF k > 0
      THEN _limit_words(FirstSentence(Lookup(st, InterventionKeys[k])), InterventionLimit)
      ELSE Fallback(_get_abstract_text(st, doc),
                    << IntFallback1, IntFallback2, IntFallback3 >>,
                    InterventionLimit, InterventionNotFound)

\* extractor.py:305-336
_extract_setting(st, doc) ==
    LET k == FirstPresent(st, SettingKeys, 1) IN
    IF k > 0
      THEN LET text == Lookup(st, SettingKeys[k])
               m == Search(text, SetStruct)
           IN  IF m.ok THEN _limit_words(Group(text, m, 1), SettingLimit)
               ELSE _limit_words(FirstSentence(text), SettingLimit)
      ELSE Fallback(_get_abstract_text(st, doc),
                    << SetFallback1, SetFallback2, SetFallback3 >>,
                    SettingLimit, SettingNotFound)

\* extractor.py:338-364
_extract_primary_outcome(st, doc) ==
    LET k == FirstPresent(st, PrimaryOutcomeKeys, 1) IN
    IF k > 0
      THEN _limit_words(FirstSentence(Lookup(st, PrimaryOutcomeKeys[k])), PrimaryOutcomeLimit)
      ELSE Fallback(_get_abstract_text(st, doc),
                    << OutFallback1, OutFallback2, OutFallback3 >>,
                    PrimaryOutcomeLimit, PrimaryOutcomeNotFound)

StripAll(q) == [i \in 1..Len(q) |-> Strip(q[i])]
NonEmpty(t) == t # << >>
HasStructMarker(sentence) == Search(sentence, StructMarker).ok
HasFallbackMarker(sentence) == Search(sentence, FallbackMarker).ok

\* a choice that goes by position alone
PickPositional(findings, sentences, number) ==
    IF Len(sentences) >= number THEN Some(sentences[number]) ELSE Absent

\* extractor.py:386-391, 407-411  the k-th marked sentence, else the k-th sentence
PickFinding(findings, sentences, number) ==
    IF Len(findings) >= number THEN Some(findings[number])
    ELSE IF Len(sentences) >= number THEN Some(sentences[number])
    ELSE Absent

\* extractor.py:371-391  what the Results section gives, if anything
FindingFromResults(st, number) ==
    IF ~HasKey(st, "Results") THEN Absent
    ELSE LET sentences == SelectSeq(StripAll(Split(Lookup(st, "Results"), SentenceEnd)),
                                    NonEmpty)
             findings == SelectSeq(sentences, HasStructMarker)
         IN  PickFinding(findings, sentences, number)

\* extractor.py:393-411  what the whole-abstract text gives, if anything
FindingFromAbstract(abstract, number) ==
    LET m == Search(abstract, ResultsSpan) IN
    IF ~m.ok THEN Absent
    ELSE LET sentences == Split(Group(abstract, m, 1), FallbackSentenceEnd)
             findings == StripAll(SelectSeq(sentences, HasFallbackMarker))
         IN  PickFinding(findings, sentences, number)

\* extractor.py:366-413
_extract_finding(number, st, doc) ==
    LET structured == FindingFromResults(st, number) IN
    IF IsPresent(structured) THEN _limit_words(structured[1], FindingLimit)
    ELSE LET fallback == FindingFromAbstract(_get_abstract_text(st, doc), number)
         IN  IF IsPresent(fallback) THEN _limit_words(fallback[1], FindingLimit)
             ELSE FindingNotFound(number)

(***************************************************************************)
(* extract_all  (extractor.py:23-44)                                       *)
(***************************************************************************)
ExtractorKeys ==
    << "title", "authors", "publication_date", "doi", "population", "intervention",
       "setting", "primary_outcome", "finding_1", "finding_2" >>

FieldKeys == {"population", "intervention", "setting", "primary_outcome", "finding_1",
              "finding_2"}

\* the value of the k-th entry of the dict literal, given the structured abstract st
ExtractKey(k, st, doc) ==
    CASE k = 1 -> _extract_title(doc)
      [] k = 2 -> _extract_authors(doc)
      [] k = 3 -> _extract_date(doc)
      [] k = 4 -> _extract_doi(doc)
      [] k = 5 -> Returned(_extract_population(st, doc))
      [] k = 6 -> Returned(_extract_intervention(st, doc))
      [] k = 7 -> Returned(_extract_setting(st, doc))
      [] k = 8 -> Returned(_extract_primary_outcome(st, doc))
      [] k = 9 -> Returned(_extract_finding(1, st, doc))
      [] k = 10 -> Returned(_extract_finding(2, st, doc))

\* the entries that call _get_structured_abstract()
UsesStructured(k) == k >= 5

\* the dict built from the ten values
DataOf(vs) == [key \in {ExtractorKeys[i] : i \in 1..Len(vs)} |->
                 vs[CHOOSE i \in 1..Len(vs) : ExtractorKeys[i] = key]]

\* a cache test that takes an empty mapping for no mapping
CachedIfTruthy(cache) == IsPresent(cache) /\ cache[1] # << >>

\* extractor.py:182  self._structured_abstract is not None
Cached(cache) == IsPresent(cache)

\* mutant of _get_structured_abstract: a call served from the cache gets an empty mapping
CachedServesEmpty(cache, doc) ==
    IF Cached(cache) THEN << >> ELSE Structured(doc)

\* extractor.py:180-207  the cached mapping if there is one, else the parsed one
_get_structured_abstract(cache, doc) ==
    IF Cached(cache) THEN cache[1] ELSE Structured(doc)

\* the parses that entry k of the dict literal causes: its first call of
\* _get_structured_abstract() parses unless the cache is set, and sets it (extractor.py:203)
Parses(cache, k) == IF UsesStructured(k) /\ ~Cached(cache) THEN 1 ELSE 0

(***************************************************************************)
(* The documents of the model.  A document is what the selectors of        *)
(* extractor.py find in it.                                                *)
(***************************************************************************)
\* a page with nothing the extractor looks for
EmptyDoc ==
    [h1 |-> << Absent, Absent, Absent, Absent >>,
     og_title |-> Absent, title_el |-> Absent,
     citation_author |-> << >>, author_els |-> << << >>, << >>, << >> >>,
     citation_publication_date |-> Absent, published_time |-> Absent,
     time_el |-> Absent, date_el |-> Absent,
     citation_doi |-> Absent, doi_a |-> Absent, doi_el |-> Absent,
     citation_abstract |-> Absent,
     abstract_els |-> << Absent, Absent, Absent, Absent, Absent >>]

\* soup of a scraper that has parsed nothing yet
NoDoc == EmptyDoc

TrialTitle == T(<< "alpha", "Trial" >>)
Doi == << "10.1001/jama.2020.1" >>

\* a page with title, authors, date and DOI metadata and no abstract
PlainDoc ==
    [EmptyDoc EXCEPT !.og_title = Attr(TrialTitle \o << WS, "|", WS, "JAMA", WS, "Network" >>),
                     !.citation_author = << Some(<< "Smith" >>), Some(<< "Jones" >>) >>,
                     !.citation_publication_date = Attr(IsoDate),
                     !.citation_doi = Attr(Doi)]

\* the pages that differ in their title elements
TitleDocs ==
    { [EmptyDoc EXCEPT !.og_title = og, !.h1 = << m, h, Absent, Absent >>,
                       !.title_el = t, !.citation_publication_date = Attr(IsoDate)] :
        og \in {Absent, NoAttr, Attr(TrialTitle \o << WS, "-", WS, "JAMA" >>)},
        m \in {Absent, Some(<< "beta", WS, "Trial" >>)},
        h \in {Absent, Some(<< WS >> \o TrialTitle)},
        t \in {Absent, Some(TrialTitle \o << WS, "|", WS, "JAMA", WS, "Network" >>)} }

MaxAuthors == 4

\* the i-th author of a page
AuthorName(i) == << << "Smith" >>, << "Jones" >>, << "Brown" >>, << "Lee" >> >>[((i - 1) % 4) + 1]

\* the pages that differ in their author elements
AuthorDocs ==
    { [PlainDoc EXCEPT !.citation_author = [i \in 1..n |-> Some(AuthorName(i))]] :
        n \in 0..MaxAuthors }
    \cup { [PlainDoc EXCEPT !.citation_author = << >>,
                            !.author_els = << << >>, [i \in 1..n |-> AuthorName(i)], << >> >>] :
             n \in 0..MaxAuthors }
    \cup { [PlainDoc EXCEPT !.citation_author = << Some(AuthorName(1)), Absent >>] }

\* the pages that differ in their date elements
DateDocs ==
    { [PlainDoc EXCEPT !.citation_publication_date = c, !.published_time = a,
                       !.time_el = t, !.date_el = d] :
        c \in {Absent, NoAttr, Attr(IsoDate), Attr(LooseDate)},
        a \in {Absent, Attr(IsoStamp)},
        t \in {Absent, Some(IsoDate)},
        d \in {Absent, Some(LooseDate)} }

\* the pages that differ in their DOI elements
DoiDocs ==
    { [PlainDoc EXCEPT !.citation_doi = c, !.doi_a = a, !.doi_el = e] :
        c \in {Absent, NoAttr, Attr(<< "doi:", WS >> \o Doi)},
        a \in {Absent, Some(<< "https://doi.org/" >> \o Doi)},
        e \in {Absent, Some(<< "DOI:", WS >> \o Doi \o << WS >>)} }

MetaDocs == {EmptyDoc, PlainDoc} \cup TitleDocs \cup AuthorDocs \cup DateDocs \cup DoiDocs

(***************************************************************************)
(* The abstracts of the model: a stem that one of the patterns looks for,  *)
(* a run of filler words that carries the text up to and past the word     *)
(* limits, and a tail.                                                     *)
(***************************************************************************)
MaxPad == 21

\* n more words
RECURSIVE Pad(_)
Pad(n) == IF n = 0 THEN << >> ELSE << WS, "w" >> \o Pad(n - 1)

Stems ==
    { << >>,
      T(<< "alpha", "beta" >>),
      T(<< "40", "patients", "with", "hypertension" >>),
      T(<< "Patients", "with", "hypertension" >>),
      T(<< "40", "participants" >>),
      T(<< "40", "patients", "aged", "60" >>),
      << "500", WS, "adults", WS, "aged", WS, "60", "-", "75", WS, "with", WS, "hypertension" >>,
      T(<< "40", "patients", "according", "to", "alpha" >>),
      T(<< "Trial", "conducted", "in", "hospital" >>),
      T(<< "hospital", "in", "Network" >>),
      T(<< "adults", "received", "alpha", "compared", "with", "beta" >>),
      T(<< "Trial", "measured", "60", "days", "mortality" >>),
      T(<< "Primary", "outcome", "was", "mortality" >>),
      << "mortality", WS, "was", WS, "2", DOT, "5", "%" >>,
      << "p", WS, "<", WS, "0", DOT, "5" >>,
      << "n", WS, "=", WS, "40", WS, "adults" >>,
      T(<< "beta", "to", "60", "days" >>),
      << "Participants", COLON, WS, "40", WS, "adults" >>,
      << "Intervention", COLON, WS, "alpha" >>,
      << "Setting", COLON, WS, "hospital" >>,
      << "Main", WS, "Outcomes", WS, "and", WS, "Measures", COLON, WS, "mortality" >>,
      << "Results", COLON, WS, "mortality", WS, "was", WS, "5", "%" >> }

\* ". gamma 5%; delta. "
MoreSentences == << DOT, WS, "gamma", WS, "5", "%", SEMI, WS, "delta", DOT, WS >>

Tails == { << >>, MoreSentences }

\* the stems that are also followed by filler words
PaddedStems ==
    { << >>,
      T(<< "alpha", "beta" >>),
      T(<< "40", "patients", "with", "hypertension" >>),
      T(<< "Patients", "with", "hypertension" >>),
      T(<< "40", "participants" >>),
      T(<< "Trial", "conducted", "in", "hospital" >>),
      T(<< "adults", "received", "alpha", "compared", "with", "beta" >>),
      T(<< "Trial", "measured", "60", "days", "mortality" >>),
      << "mortality", WS, "was", WS, "2", DOT, "5", "%" >>,
      << "n", WS, "=", WS, "40", WS, "adults" >>,
      << "Participants", COLON, WS, "40", WS, "adults" >>,
      << "Results", COLON, WS, "mortality", WS, "was", WS, "5", "%" >> }

Bodies == { stem \o Pad(n) \o tail : stem \in PaddedStems, n \in 0..MaxPad, tail \in Tails }

\* the first label of each field, and all headings: labels the extractors look for,
\* one they do not, and an empty one
FirstLabels ==
    { "Participants", "Interventions", "Setting", "Main Outcomes and Measures", "Results" }

Labels == FirstLabels \cup { "Design, Setting, and Participants", "Objective", "" }

WithAbstract(elems) == [PlainDoc EXCEPT !.citation_abstract = Attr(elems)]

\* <h3>label</h3><p>body</p>
SectionDocs == { WithAbstract(<< H3(l), P(b) >>) : l \in FirstLabels, b \in Bodies }

\* a Results text whose second sentence grows
LongSecond == { << "alpha", DOT, WS, "beta" >> \o Pad(n) \o << DOT >> : n \in 0..MaxPad }

\* abstracts of other shapes: no content attribute, nothing in it, a heading with no
\* paragraph, a paragraph before the first heading, two paragraphs, two sections
ShortBodies == { stem \o tail : stem \in Stems, tail \in {<< >>, << DOT >>} }

FewBodies ==
    { << >>, T(<< "alpha", "beta" >>) \o << DOT >>, T(<< "40", "patients", "with", "hypertension" >>),
      T(<< "Trial", "conducted", "in", "hospital" >>) \o << DOT >>,
      << "mortality", WS, "was", WS, "2", DOT, "5", "%", DOT, WS, "gamma", DOT >>,
      << "gamma", DOT, WS, "delta", WS, "5", "%", DOT >> }

ShapeDocs ==
    { [PlainDoc EXCEPT !.citation_abstract = NoAttr], WithAbstract(<< >>) }
    \cup { WithAbstract(<< H3(l) >>) : l \in Labels }
    \cup { WithAbstract(<< H3(l), P(b) >>) : l \in Labels, b \in ShortBodies }
    \cup { WithAbstract(<< P(b), H3(l) >>) : l \in Labels, b \in FewBodies }
    \cup { WithAbstract(<< P(a), H3("Participants"), P(b) >>) : a, b \in FewBodies }
    \cup { WithAbstract(<< H3(l), P(a), P(b) >>) :
             l \in {"Results", "Participants"}, a, b \in FewBodies }
    \cup { WithAbstract(<< H3(k), P(a), H3(l), P(b) >>) :
             k \in {"Population", "Intervention", "Setting", "Primary Endpoint"},
             l \in {"Participants", "Interventions", "Design, Setting, and Participants",
                    "Primary Outcome"},
             a, b \in FewBodies }

\* no citation_abstract: the abstract is an element of the page
DomDocs ==
    { [PlainDoc EXCEPT !.abstract_els = << Absent, Some(b), Absent, Absent, Absent >>] :
        b \in Bodies }
    \cup { [PlainDoc EXCEPT !.abstract_els = << Some(b), Absent, Absent, Absent, Absent >>] :
             b \in ShortBodies }
    \cup { [PlainDoc EXCEPT !.abstract_els = << Absent, Absent, Absent, Some(<< WS >> \o a),
                                                Some(b) >>] : a, b \in FewBodies }

ResultsDocs ==
    { WithAbstract(<< H3("Results"), P(b) >>) : b \in LongSecond }
    \cup { WithAbstract(<< H3("Objective"), P(<< "Results", COLON, WS >> \o b) >>) :
             b \in LongSecond }

\* Results sections of 1..MaxSentences sentences, each with or without a statistic
MaxSentences == 4

\* "mortality was 2.5%", "gamma p = 0.5"
MarkedSentences ==
    { << "mortality", WS, "was", WS, "2", DOT, "5", "%" >>,
      << "gamma", WS, "p", WS, "=", WS, "0", DOT, "5" >> }

UnmarkedSentences == { T(<< "alpha", "beta" >>) }

SentenceSeqs ==
    UNION { [1..n -> MarkedSentences \cup UnmarkedSentences] : n \in 1..MaxSentences }

\* the sentences, a period and a space between them, and what ends the text
ResultsText(seq, final) == Join(seq, << DOT, WS >>) \o final

SentenceDocs ==
    { WithAbstract(<< H3("Results"), P(ResultsText(seq, final)) >>) :
        seq \in SentenceSeqs, final \in {<< >>, << DOT >>} }

\* "Results: gamma; delta 5%."
ResultsNote == << "Results", COLON, WS, "gamma", SEMI, WS, "delta", WS, "5", "%", DOT >>

\* a Results section with no sentence or one, beside a section whose text may name results
OutsideDocs ==
    { WithAbstract(<< H3("Objective"), P(b), H3("Results") >> \o r) :
        b \in {ResultsNote, << "gamma", DOT >>},
        r \in {<< >>, << P(<< "alpha", WS, "beta", DOT >>) >>} }
    \cup { WithAbstract(<< H3("Results") >> \o r \o << H3("Objective"), P(b) >>) :
              b \in {ResultsNote, << "gamma", DOT >>},
              r \in {<< >>, << P(<< "alpha", WS, "beta", DOT >>) >>} }

AbstractDocs ==
    SectionDocs \cup ResultsDocs \cup SentenceDocs \cup OutsideDocs \cup ShapeDocs \cup DomDocs

Docs == MetaDocs \cup AbstractDocs

\* the pages the acquired markup parses to in a run of main.py
PageDocs == {EmptyDoc, PlainDoc, WithAbstract(<< H3("Interventions") >>)}

(***************************************************************************)
(* External sessions.  PW_DRIVER is the Playwright driver process started  *)
(* by "with sync_playwright() as p"; a browser session is named by the     *)
(* strategy that opened it.                                                *)
(***************************************************************************)
PW_DRIVER == "playwright driver"

\* mutant of CloseSession: the teardown call is missing
CloseSessionMissing(sessions, s) == sessions

\* driver.quit() / browser.close(): the session is gone whether or not the call raises
CloseSession(sessions, s) == sessions \ {s}

\* scraper.py:86  leaving the with block stops the Playwright driver and, with it,
\* every browser that was launched through p
PlaywrightStop(sessions) == sessions \ {PW_DRIVER, PLAYWRIGHT}

\* what a strategy delivers after its teardown: a raising teardown replaces the
\* pending result unless the teardown call is wrapped in try/except: pass
AfterTeardown(pending, raises, swallowed) ==
    IF raises /\ ~swallowed THEN Exc("teardown") ELSE pending

\* mutant of Exhausted: off by one, the last method is never tried
ExhaustedEarly(i, ms) == i >= Len(ms)

\* scraper.py:62  the for loop is over when the list is used up
Exhausted(i, ms) == i > Len(ms)

\* mutant of NextIndex: a failed method is tried again
NextIndexRetry(i) == i

\* scraper.py:62,80  the loop moves on to the next method
NextIndex(i) == i + 1

\* scraper.py:246  BeautifulSoup(self.html_content, 'lxml'): the document d parsed from markup c
Parse(c, d) == [of |-> c, doc |-> d]
NoSoup == Parse(NoneContent, NoDoc)

\* mutant of NeedsScrape: get_soup() always acquires again
NeedsScrapeAlways(c) == TRUE

\* scraper.py:243  get_soup() acquires only when nothing is held
NeedsScrape(c) == ~Truthy(c)

\* no call of _limit_words on its own
NotCalled ==
    [called |-> FALSE, text |-> << >>, max_words |-> 0, result |-> << >>, again |-> Absent]

Init ==
    /\ HAS_PLAYWRIGHT \in BOOLEAN
    /\ HAS_UC \in BOOLEAN
    /\ pc = "main_scrape"
    /\ caller = "main"
    /\ methods = << >>
    /\ mi = 0
    /\ mpc = "idle"
    /\ local = NoLocal
    /\ html_content = NoneContent
    /\ successful_method = None
    /\ open = {}
    /\ obtained = NoneContent
    /\ invoked = << >>
    /\ delivered = << >>
    /\ outcome = [kind |-> "none"]
    /\ soup = NoSoup
    /\ xk = 0
    /\ values = << >>
    /\ _structured_abstract = Absent
    /\ parses = 0
    /\ article_data = [kind |-> "none"]
    /\ rendered = FALSE
    /\ limited = NotCalled

\* what no step of a conversion changes: the installed packages; and the record of a
\* call of _limit_words made on its own
envUnchanged == UNCHANGED << HAS_PLAYWRIGHT, HAS_UC, limited >>
mainUnchanged ==
    UNCHANGED << soup, xk, values, _structured_abstract, parses, article_data, rendered >>

(***************************************************************************)
(* JAMAScraper.scrape  (scraper.py:41-82)                                  *)
(***************************************************************************)
\* scraper.py:46-60  build the list and enter the loop
EnterScrape(from) ==
    /\ caller' = from
    /\ methods' = BuildMethods(HAS_PLAYWRIGHT, HAS_UC)
    /\ mi' = 1
    /\ pc' = "scrape_for"
    /\ mpc' = "idle"
    /\ local' = NoLocal
    /\ outcome' = [kind |-> "none"]

\* where control goes when scrape() ends
AfterScrape(from, raised) ==
    IF from = "client" THEN "client"
    ELSE IF from = "client_get_soup" THEN (IF raised THEN "client" ELSE "client_parse")
    ELSE IF raised THEN "main_except"
    ELSE IF from = "main" THEN "main_get_soup" ELSE "get_soup_parse"

\* scraper.py:62-67,82  loop head: call the next method, or raise the terminal error
scrape_for ==
    /\ pc = "scrape_for"
    /\ IF Exhausted(mi, methods)
         THEN /\ outcome' = [kind |-> "raise", error |-> TerminalError]
              /\ pc' = AfterScrape(caller, TRUE)
              /\ UNCHANGED << mpc, invoked, obtained >>
         ELSE /\ invoked' = Append(invoked, methods[mi])
              /\ obtained' = NoneContent
              /\ mpc' = Entry(methods[mi])
              /\ pc' = "scrape_call"
              /\ UNCHANGED outcome
    /\ UNCHANGED << caller, methods, mi, local, html_content, successful_method, open,
                    delivered >>
    /\ envUnchanged /\ mainUnchanged

\* scraper.py:67-80  the method came back: assign, test, return or continue
scrape_result ==
    /\ pc = "scrape_call" /\ mpc = "done"
    /\ IF local.kind = "value"
         THEN /\ html_content' = local.value
              /\ IF Accepts(local.value)
                   THEN /\ successful_method' = methods[mi]
                        /\ outcome' = [kind |-> "return", value |-> local.value]
                        /\ pc' = AfterScrape(caller, FALSE)
                        /\ UNCHANGED mi
                   ELSE /\ mi' = NextIndex(mi)
                        /\ pc' = "scrape_for"
                        /\ UNCHANGED << successful_method, outcome >>
         ELSE /\ mi' = NextIndex(mi)
              /\ pc' = "scrape_for"
              /\ UNCHANGED << html_content, successful_method, outcome >>
    /\ delivered' = Append(delivered,
                           [name |-> methods[mi], result |-> local, obtained |-> obtained])
    /\ mpc' = "idle"
    /\ local' = NoLocal
    /\ UNCHANGED << caller, methods, open, invoked, obtained >>
    /\ envUnchanged /\ mainUnchanged

\* what every step inside a strategy leaves alone
strategyUnchanged ==
    /\ UNCHANGED << pc, caller, methods, mi, html_content, successful_method, invoked,
                    delivered, outcome >>
    /\ envUnchanged /\ mainUnchanged

InStrategy(at) == pc = "scrape_call" /\ mpc = at

(***************************************************************************)
(* _scrape_with_playwright  (scraper.py:84-119)                            *)
(***************************************************************************)
\* scraper.py:86  with sync_playwright() as p
pw_with ==
    /\ InStrategy("pw_with")
    /\ \E ok \in BOOLEAN :
         IF ok THEN /\ open' = open \cup {PW_DRIVER}
                    /\ mpc' = "pw_launch"
                    /\ UNCHANGED local
               ELSE /\ local' = Exc("sync_playwright")
                    /\ mpc' = "done"
                    /\ UNCHANGED open
    /\ UNCHANGED obtained
    /\ strategyUnchanged

\* scraper.py:87-91  browser = p.chromium.launch(...)
pw_launch ==
    /\ InStrategy("pw_launch")
    /\ \E ok \in BOOLEAN :
         IF ok THEN /\ open' = open \cup {PLAYWRIGHT}
                    /\ mpc' = "pw_new_context"
                    /\ UNCHANGED local
               ELSE /\ local' = Exc("launch")
                    /\ mpc' = "pw_exit"
                    /\ UNCHANGED open
    /\ UNCHANGED obtained
    /\ strategyUnchanged

\* scraper.py:93-96  context = browser.new_context(...)   (outside the try)
pw_new_context ==
    /\ InStrategy("pw_new_context")
    /\ \E ok \in BOOLEAN :
         IF ok THEN mpc' = "pw_new_page" /\ UNCHANGED local
               ELSE local' = Exc("new_context") /\ mpc' = "pw_exit"
    /\ UNCHANGED open
    /\ UNCHANGED obtained
    /\ strategyUnchanged

\* scraper.py:98  page = context.new_page()   (outside the try)
pw_new_page ==
    /\ InStrategy("pw_new_page")
    /\ \E ok \in BOOLEAN :
         IF ok THEN mpc' = "pw_try" /\ UNCHANGED local
               ELSE local' = Exc("new_page") /\ mpc' = "pw_exit"
    /\ UNCHANGED open
    /\ UNCHANGED obtained
    /\ strategyUnchanged

\* scraper.py:100-116  goto, wait_for_selector, content, own length check
pw_try ==
    /\ InStrategy("pw_try")
    /\ \E ok \in BOOLEAN, n \in ContentLens :
         /\ obtained' = IF ok THEN Content(PLAYWRIGHT, n) ELSE obtained
         /\ local' = IF ~ok THEN Exc("page load")
                      ELSE IF PlaywrightAccepts(n) THEN Value(Content(PLAYWRIGHT, n))
                      ELSE Exc("Insufficient content received")
    /\ mpc' = "pw_finally"
    /\ UNCHANGED open
    /\ strategyUnchanged

\* scraper.py:118-119  finally: browser.close()
pw_finally ==
    /\ InStrategy("pw_finally")
    /\ open' = CloseSession(open, PLAYWRIGHT)
    /\ \E raises \in BOOLEAN : local' = AfterTeardown(local, raises, FALSE)
    /\ mpc' = "pw_exit"
    /\ UNCHANGED obtained
    /\ strategyUnchanged

\* scraper.py:86  the with block is left (normally or by exception)
pw_exit ==
    /\ InStrategy("pw_exit")
    /\ open' = PlaywrightStop(open)
    /\ mpc' = "done"
    /\ UNCHANGED local
    /\ UNCHANGED obtained
    /\ strategyUnchanged

(***************************************************************************)
(* The three Selenium-style strategies share their shape: create the       *)
(* driver, try: load and read page_source, finally: driver.quit().         *)
(***************************************************************************)
\* the driver constructor either yields a session or raises leaving none
CreateDriver(at, s, ok, next) ==
    /\ InStrategy(at)
    /\ IF ok THEN /\ open' = open \cup {s}
                  /\ mpc' = next
                  /\ UNCHANGED local
             ELSE /\ local' = Exc("driver")
                  /\ mpc' = "done"
                  /\ UNCHANGED open
    /\ UNCHANGED obtained
    /\ strategyUnchanged

\* try: driver.get, WebDriverWait(...).until, page_source
LoadPage(at, s, next) ==
    /\ InStrategy(at)
    /\ \E ok \in BOOLEAN, n \in ContentLens :
         /\ obtained' = IF ok THEN Content(s, n) ELSE obtained
         /\ local' = IF ok THEN Value(Content(s, n)) ELSE Exc("page load")
    /\ mpc' = next
    /\ UNCHANGED open
    /\ strategyUnchanged

\* finally: driver.quit(), wrapped in try/except: pass or not
QuitDriver(at, s, swallowed) ==
    /\ InStrategy(at)
    /\ open' = CloseSession(open, s)
    /\ \E raises \in BOOLEAN : local' = AfterTeardown(local, raises, swallowed)
    /\ mpc' = "done"
    /\ UNCHANGED obtained
    /\ strategyUnchanged

\* scraper.py:136-140  uc.Chrome(version_main=140), on failure uc.Chrome() again
uc_chrome == \E first \in BOOLEAN, second \in BOOLEAN :
    CreateDriver("uc_chrome", UNDETECTED, first \/ second, "uc_try")
\* scraper.py:142-157
uc_try == LoadPage("uc_try", UNDETECTED, "uc_finally")
\* scraper.py:158-162
uc_finally == QuitDriver("uc_finally", UNDETECTED, TRUE)

\* scraper.py:198-199
sh_chrome == \E ok \in BOOLEAN : CreateDriver("sh_chrome", HEADLESS, ok, "sh_try")
\* scraper.py:201-211
sh_try == LoadPage("sh_try", HEADLESS, "sh_finally")
\* scraper.py:212-216
sh_finally == QuitDriver("sh_finally", HEADLESS, TRUE)

\* scraper.py:225-226
sf_chrome == \E ok \in BOOLEAN : CreateDriver("sf_chrome", FULL, ok, "sf_try")
\* scraper.py:228-237
sf_try == LoadPage("sf_try", FULL, "sf_finally")
\* scraper.py:238-239  driver.quit() is not wrapped here
sf_finally == QuitDriver("sf_finally", FULL, FALSE)

\* _scrape_with_requests  (scraper.py:164-179): get, raise_for_status, response.text
rq_get ==
    /\ InStrategy("rq_get")
    /\ \E ok \in BOOLEAN, n \in ContentLens :
         /\ obtained' = IF ok THEN Content(REQUESTS, n) ELSE obtained
         /\ local' = IF ok THEN Value(Content(REQUESTS, n)) ELSE Exc("request")
    /\ mpc' = "done"
    /\ UNCHANGED open
    /\ strategyUnchanged

(***************************************************************************)
(* main.py:89-162  one conversion                                          *)
(***************************************************************************)
scraperUnchanged ==
    UNCHANGED << caller, methods, mi, mpc, local, html_content, successful_method,
                 open, obtained, invoked, delivered, outcome >>

\* main.py:92-93  scraper = JAMAScraper(...); html_content = scraper.scrape()
main_scrape ==
    /\ pc = "main_scrape"
    /\ EnterScrape("main")
    /\ UNCHANGED << html_content, successful_method, open, obtained, invoked, delivered >>
    /\ envUnchanged /\ mainUnchanged

\* scraper.py:241-246  get_soup(), called at main.py:94
get_soup ==
    /\ pc \in {"main_get_soup", "get_soup_parse"}
    /\ IF pc = "main_get_soup" /\ NeedsScrape(html_content)
         THEN /\ EnterScrape("get_soup")
              /\ UNCHANGED << html_content, successful_method, open, obtained, invoked,
                              delivered, soup >>
         ELSE /\ \E d \in PageDocs : soup' = Parse(html_content, d)
              /\ pc' = "main_extract"
              /\ scraperUnchanged
    /\ UNCHANGED << xk, values, _structured_abstract, parses, article_data, rendered >>
    /\ envUnchanged

\* main.py:99-100, extractor.py:18-21  ContentExtractor(soup, ...) and the call
main_extract ==
    /\ pc = "main_extract"
    /\ _structured_abstract' = Absent
    /\ parses' = 0
    /\ xk' = 1
    /\ values' = << >>
    /\ pc' = "extract_all"
    /\ UNCHANGED << soup, article_data, rendered >>
    /\ scraperUnchanged /\ envUnchanged

\* extractor.py:28-39  one entry of the dict literal: the extractor returns or raises
extract_all ==
    /\ pc = "extract_all" /\ xk <= Len(ExtractorKeys)
    /\ LET st == _get_structured_abstract(_structured_abstract, soup.doc)
           r == ExtractKey(xk, st, soup.doc)
       IN  /\ _structured_abstract' = IF UsesStructured(xk) THEN Some(st)
                                      ELSE _structured_abstract
           /\ parses' = parses + Parses(_structured_abstract, xk)
           /\ IF r.kind = "raise"
                THEN /\ article_data' = [kind |-> "raise", error |-> r.error]
                     /\ pc' = "main_except"
                     /\ UNCHANGED << xk, values >>
                ELSE /\ values' = Append(values, r.value)
                     /\ xk' = xk + 1
                     /\ UNCHANGED << pc, article_data >>
    /\ UNCHANGED << soup, rendered >>
    /\ scraperUnchanged /\ envUnchanged

\* extractor.py:44, main.py:100  return data
extract_all_return ==
    /\ pc = "extract_all" /\ xk > Len(ExtractorKeys)
    /\ article_data' = [kind |-> "return", data |-> DataOf(values)]
    /\ pc' = "main_generate"
    /\ UNCHANGED << soup, xk, values, _structured_abstract, parses, rendered >>
    /\ scraperUnchanged /\ envUnchanged

\* main.py:113-141  icon selection and generator.generate(output_path)
main_generate ==
    /\ pc = "main_generate"
    /\ rendered' = TRUE
    /\ pc' = "main_done"
    /\ UNCHANGED << soup, xk, values, _structured_abstract, parses, article_data >>
    /\ scraperUnchanged /\ envUnchanged

\* main.py:157-162  except Exception: print, sys.exit(1)
main_except ==
    /\ pc = "main_except"
    /\ pc' = "main_exit1"
    /\ mainUnchanged /\ scraperUnchanged /\ envUnchanged

Next ==
    \/ main_scrape
    \/ scrape_for
    \/ scrape_result
    \/ pw_with \/ pw_launch \/ pw_new_context \/ pw_new_page \/ pw_try \/ pw_finally \/ pw_exit
    \/ uc_chrome \/ uc_try \/ uc_finally
    \/ rq_get
    \/ sh_chrome \/ sh_try \/ sh_finally
    \/ sf_chrome \/ sf_try \/ sf_finally
    \/ get_soup
    \/ main_extract
    \/ extract_all
    \/ extract_all_return
    \/ main_generate
    \/ main_except

Spec == Init /\ [][Next]_vars

(***************************************************************************)
(* The extractor on its own: main.py from the point where the page has     *)
(* been acquired and parsed, for every document of the model.              *)
(***************************************************************************)
InitX ==
    /\ HAS_PLAYWRIGHT = FALSE
    /\ HAS_UC = FALSE
    /\ pc = "main_extract"
    /\ caller = "main"
    /\ methods = BuildMethods(FALSE, FALSE)
    /\ mi = 1
    /\ mpc = "idle"
    /\ local = NoLocal
    /\ html_content = Content(REQUESTS, MinContent + 1)
    /\ successful_method = REQUESTS
    /\ open = {}
    /\ obtained = html_content
    /\ invoked = << REQUESTS >>
    /\ delivered = << [name |-> REQUESTS, result |-> Value(html_content),
                        obtained |-> html_content] >>
    /\ outcome = [kind |-> "return", value |-> html_content]
    /\ soup \in { Parse(html_content, d) : d \in Docs }
    /\ xk = 0
    /\ values = << >>
    /\ _structured_abstract = Absent
    /\ parses = 0
    /\ article_data = [kind |-> "none"]
    /\ rendered = FALSE
    /\ limited = NotCalled

NextX ==
    \/ main_extract
    \/ extract_all
    \/ extract_all_return
    \/ main_generate
    \/ main_except

SpecX == InitX /\ [][NextX]_vars

(***************************************************************************)
(* extract_all() called again on the same ContentExtractor: the cache set  *)
(* by the first call (extractor.py:203) is still there.                    *)
(***************************************************************************)
\* the pages of the repeated extraction: abstracts of every shape, with and without
\* metadata, Results sections beside other sections, and the empty page, on which the
\* first call raises
RepeatDocs == ShapeDocs \cup DomDocs \cup OutsideDocs \cup ResultsDocs \cup {EmptyDoc}

InitR == InitX /\ soup.doc \in RepeatDocs

\* extractor.py:23-26  a further call of extract_all() after one that returned: the dict
\* literal is evaluated from its first entry again, self._structured_abstract is kept
extract_all_again ==
    /\ pc = "main_generate" /\ article_data.kind = "return"
    /\ xk' = 1
    /\ values' = << >>
    /\ pc' = "extract_all"
    /\ UNCHANGED << soup, _structured_abstract, parses, article_data, rendered >>
    /\ scraperUnchanged /\ envUnchanged

NextR ==
    \/ main_extract
    \/ extract_all
    \/ extract_all_return
    \/ extract_all_again
    \/ main_except

SpecR == InitR /\ [][NextR]_vars

(***************************************************************************)
(* _limit_words on its own: one call, for texts of 0..MaxWords words with  *)
(* single and double spaces between them and around them, and the limits   *)
(* the extractors pass, with two small ones.                               *)
(***************************************************************************)
MaxWords == 21

WordList == << "alpha", "beta", "gamma", "delta", "adults", "hypertension", "data", "not",
               "found", "to", "and", "was", "et", "al", "Smith", "Jones", "Brown", "Lee",
               "Network", "Trial", "patients", "with", "aged", "hospital" >>

\* the i-th word of a text
Word(i) == WordList[((i - 1) % Len(WordList)) + 1]

\* n words, each two separated by sep
RECURSIVE Words(_, _)
Words(n, sep) ==
    IF n = 0 THEN << >>
    ELSE IF n = 1 THEN << Word(1) >>
    ELSE Words(n - 1, sep) \o sep \o << Word(n) >>

LimitTexts ==
    { lead \o Words(n, sep) \o trail :
        n \in 0..MaxWords, sep \in {<< WS >>, << WS, WS >>},
        lead \in {<< >>, << WS >>}, trail \in {<< >>, << WS >>} }

LimitChoices == {1, 2, SettingLimit, PopulationLimit, PrimaryOutcomeLimit}

InitL ==
    /\ HAS_PLAYWRIGHT = FALSE
    /\ HAS_UC = FALSE
    /\ pc = "_limit_words"
    /\ caller = "main"
    /\ methods = << >>
    /\ mi = 0
    /\ mpc = "idle"
    /\ local = NoLocal
    /\ html_content = NoneContent
    /\ successful_method = None
    /\ open = {}
    /\ obtained = NoneContent
    /\ invoked = << >>
    /\ delivered = << >>
    /\ outcome = [kind |-> "none"]
    /\ soup = NoSoup
    /\ xk = 0
    /\ values = << >>
    /\ _structured_abstract = Absent
    /\ parses = 0
    /\ article_data = [kind |-> "none"]
    /\ rendered = FALSE
    /\ limited \in { [called |-> FALSE, text |-> t, max_words |-> n, result |-> << >>,
                        again |-> Absent] :
                       t \in LimitTexts, n \in LimitChoices }

\* extractor.py:415-420  the call returns
limit_words_call ==
    /\ pc = "_limit_words"
    /\ limited' = [limited EXCEPT !.called = TRUE,
                                  !.result = _limit_words(limited.text, limited.max_words)]
    /\ pc' = "_limit_words_return"
    /\ UNCHANGED << HAS_PLAYWRIGHT, HAS_UC >>
    /\ scraperUnchanged /\ mainUnchanged

\* extractor.py:415-420  the function applied to its own result, same limit
limit_words_again ==
    /\ pc = "_limit_words_return"
    /\ limited' = [limited EXCEPT
                      !.again = Some(_limit_words(limited.result, limited.max_words))]
    /\ pc' = "_limit_words_done"
    /\ UNCHANGED << HAS_PLAYWRIGHT, HAS_UC >>
    /\ scraperUnchanged /\ mainUnchanged

NextL ==
    \/ limit_words_call
    \/ limit_words_again

SpecL == InitL /\ [][NextL]_vars

\* one call of scrape() from main.py: the steps of scrape() and of the strategies
NextScrape ==
    \/ main_scrape
    \/ scrape_for
    \/ scrape_result
    \/ pw_with \/ pw_launch \/ pw_new_context \/ pw_new_page \/ pw_try \/ pw_finally \/ pw_exit
    \/ uc_chrome \/ uc_try \/ uc_finally
    \/ rq_get
    \/ sh_chrome \/ sh_try \/ sh_finally
    \/ sf_chrome \/ sf_try \/ sf_finally

\* the program is sequential and every strategy invocation terminates: a step that can
\* be taken is eventually taken
FairSpec == Init /\ [][NextScrape]_vars /\ WF_vars(NextScrape)

(***************************************************************************)
(* One JAMAScraper used through its public methods: a caller that holds    *)
(* the instance calls scrape() and get_soup() any number of times, in any  *)
(* order, and goes on after an exception.  invoked and delivered record    *)
(* the most recent run of scrape(), soup the document the most recent call *)
(* gave back, if it was get_soup() and returned.                           *)
(***************************************************************************)
\* scraper.py:35-39  the instance after __init__, in the hands of its caller
InitS ==
    /\ HAS_PLAYWRIGHT \in BOOLEAN
    /\ HAS_UC \in BOOLEAN
    /\ pc = "client"
    /\ caller = "client"
    /\ methods = << >>
    /\ mi = 0
    /\ mpc = "idle"
    /\ local = NoLocal
    /\ html_content = NoneContent
    /\ successful_method = None
    /\ open = {}
    /\ obtained = NoneContent
    /\ invoked = << >>
    /\ delivered = << >>
    /\ outcome = [kind |-> "none"]
    /\ soup = NoSoup
    /\ xk = 0
    /\ values = << >>
    /\ _structured_abstract = Absent
    /\ parses = 0
    /\ article_data = [kind |-> "none"]
    /\ rendered = FALSE
    /\ limited = NotCalled

\* scraper.py:41-60  scrape() called on the instance: __init__ is not run again, so
\* html_content and successful_method are what the calls before left
client_scrape ==
    /\ pc = "client"
    /\ EnterScrape("client")
    /\ invoked' = << >>
    /\ delivered' = << >>
    /\ soup' = NoSoup
    /\ UNCHANGED << html_content, successful_method, open, obtained >>
    /\ UNCHANGED << xk, values, _structured_abstract, parses, article_data, rendered >>
    /\ envUnchanged

\* scraper.py:241-246  get_soup() called on the instance
client_get_soup ==
    /\ pc \in {"client", "client_parse"}
    /\ IF pc = "client" /\ NeedsScrape(html_content)
         THEN /\ EnterScrape("client_get_soup")
              /\ invoked' = << >>
              /\ delivered' = << >>
              /\ soup' = NoSoup
              /\ UNCHANGED << html_content, successful_method, open, obtained >>
         ELSE /\ soup' = Parse(html_content, PlainDoc)
              /\ pc' = "client"
              /\ scraperUnchanged
    /\ UNCHANGED << xk, values, _structured_abstract, parses, article_data, rendered >>
    /\ envUnchanged

NextS ==
    \/ client_scrape
    \/ client_get_soup
    \/ scrape_for
    \/ scrape_result
    \/ pw_with \/ pw_launch \/ pw_new_context \/ pw_new_page \/ pw_try \/ pw_finally \/ pw_exit
    \/ uc_chrome \/ uc_try \/ uc_finally
    \/ rq_get
    \/ sh_chrome \/ sh_try \/ sh_finally
    \/ sf_chrome \/ sf_try \/ sf_finally

SpecS == InitS /\ [][NextS]_vars

(***************************************************************************)
(* Properties of the content extractor                                     *)
(***************************************************************************)
\* check_limits.py:25-32
limits ==
    [population |-> 15, intervention |-> 15, setting |-> 10, primary_outcome |-> 20,
     finding_1 |-> 15, finding_2 |-> 15]

\* the value extracted for an entry of the mapping, once it has been evaluated
Extracted(key) == values[CHOOSE k \in 1..Len(ExtractorKeys) : ExtractorKeys[k] = key]
HasExtracted(key) == \E k \in 1..Len(values) : ExtractorKeys[k] = key
\* the entry evaluated last (an entry, once evaluated, does not change)
JustExtracted(key) == values # << >> /\ ExtractorKeys[Len(values)] = key

Sentinel(key) ==
    CASE key = "population" -> PopulationNotFound
      [] key = "intervention" -> InterventionNotFound
      [] key = "setting" -> SettingNotFound
      [] key = "primary_outcome" -> PrimaryOutcomeNotFound
      [] key = "finding_1" -> FindingNotFound(1)
      [] key = "finding_2" -> FindingNotFound(2)

Truncated(t) == Len(t) > 3 /\ SubSeq(t, Len(t) - 2, Len(t)) = ELLIPSIS

\* C1: for every parsed document extract_all() returns without raising, and the mapping
\* it returns has exactly the ten keys.
C1_ReturnsTenKeys ==
    /\ article_data.kind # "raise"
    /\ article_data.kind = "return" =>
         DOMAIN article_data.data = {ExtractorKeys[k] : k \in 1..Len(ExtractorKeys)}

\* C2: for each of the six fields and every document the word count of the extracted
\* value is at most the field's limit, on the structured path, the fallback path and
\* for the sentinel.
C2_WithinLimits ==
    /\ \A key \in FieldKeys :
         HasExtracted(key) => WordCount(Extracted(key)) <= limits[key]
    /\ article_data.kind = "return" =>
         \A key \in FieldKeys : WordCount(article_data.data[key]) <= limits[key]

\* one mapping with a value cut on the structured path, a value cut on the fallback
\* path and a sentinel
C2_Witness ==
    /\ article_data.kind = "return"
    /\ HasKey(_structured_abstract[1], "Participants")
    /\ Truncated(article_data.data["population"])
    /\ WordCount(article_data.data["population"]) = limits["population"]
    /\ Truncated(article_data.data["setting"])
    /\ WordCount(article_data.data["setting"]) = limits["setting"]
    /\ article_data.data["intervention"] = Sentinel("intervention")

\* C3: the value of a field is never the empty string; when nothing can be found,
\* also under a heading with no paragraph, it is the field's sentinel.
C3_NeverEmpty ==
    \A key \in FieldKeys : HasExtracted(key) => Extracted(key) # << >>

(***************************************************************************)
(* Properties of the acquisition engine                                    *)
(***************************************************************************)
ScrapeEnded == outcome.kind \in {"return", "raise"}

\* attempt d failed: the strategy raised, or scrape()'s predicate rejected what it returned
Failed(d) == d.result.kind = "exc" \/ ~(d.result.value.len > MinContent)

FirstTwoRaiseThirdReturns ==
    /\ Len(delivered) >= 3
    /\ delivered[1].result.kind = "exc"
    /\ delivered[2].result.kind = "exc"
    /\ delivered[3].result.kind = "value"
    /\ delivered[3].result.value.len >= MinContent + 1

\* C4: strategies are invoked one at a time in list order, and when the first two raise
\* and the third returns 501 or more characters, scrape() returns exactly that content,
\* html_content holds it, successful_method names the third strategy and nothing after
\* the winner is invoked.
C4_FirstSuccessWins ==
    /\ Len(invoked) <= Len(methods)
    /\ \A k \in 1..Len(invoked) : invoked[k] = methods[k]
    /\ Len(delivered) \in {Len(invoked), Len(invoked) - 1}
    /\ FirstTwoRaiseThirdReturns =>
         /\ outcome = [kind |-> "return", value |-> delivered[3].result.value]
         /\ html_content = delivered[3].result.value
         /\ successful_method = methods[3]
         /\ Len(invoked) = 3

C4_Witness ==
    /\ FirstTwoRaiseThirdReturns
    /\ pc = "main_get_soup"
    /\ delivered[3].result.value.len = MinContent + 1

\* C5: scrape() raises the terminal error exactly when every strategy of the list has
\* been attempted and each raised or was rejected; when it raises nothing is returned and
\* main builds no document, runs no extraction and renders nothing.
C5_RaisesIffExhausted ==
    /\ ScrapeEnded =>
         (outcome.kind = "raise" <=>
            /\ Len(delivered) = Len(methods)
            /\ \A k \in 1..Len(delivered) : delivered[k].name = methods[k] /\ Failed(delivered[k]))
    /\ outcome.kind = "raise" =>
         /\ outcome.error = TerminalError
         /\ pc \in {"main_except", "main_exit1"}
         /\ soup = NoSoup
         /\ article_data.kind = "none"
         /\ ~rendered

C5_Witness == outcome.kind = "raise" /\ pc = "main_exit1" /\ Len(delivered) = 5

\* C6: one predicate decides success for every strategy: content of 501 or more
\* characters that a strategy obtained (Playwright included) is accepted by scrape(),
\* and content of exactly 500 characters is rejected.  (A raising teardown is a failure
\* of the environment, not of the predicate, and is left out.)
C6_SinglePredicate ==
    \A k \in 1..Len(delivered) :
        LET d == delivered[k] IN
        (d.obtained # NoneContent /\ ~(d.result.kind = "exc" /\ d.result.what = "teardown")) =>
            IF d.obtained.len > MinContent
              THEN /\ k = Len(delivered)
                   /\ outcome = [kind |-> "return", value |-> d.obtained]
                   /\ successful_method = d.name
              ELSE Failed(d)

\* C7: within one conversion every strategy is invoked at most once, and get_soup()
\* after a successful scrape() invokes nothing and parses the content already held.
C7_AtMostOnce ==
    /\ \A j, k \in 1..Len(invoked) : j # k => invoked[j] # invoked[k]
    /\ soup # NoSoup =>
         /\ outcome.kind = "return"
         /\ soup.of = outcome.value
         /\ soup.of = html_content
         /\ caller = "main"
         /\ Len(delivered) = Len(invoked)
         /\ ~Failed(delivered[Len(delivered)])
         /\ \A k \in 1..(Len(delivered) - 1) : Failed(delivered[k])

C7_Witness == pc = "main_extract" /\ soup # NoSoup /\ Len(invoked) >= 2

\* the sessions a strategy may hold while it runs
OwnSessions(m) == IF m = PLAYWRIGHT THEN {PW_DRIVER, PLAYWRIGHT} ELSE {m}

\* C8: a browser session opened by a strategy is released by the time control is back
\* in scrape(), on every exit path; none is open while a later strategy runs or after
\* scrape() has ended.
C8_SessionsReleased ==
    IF pc = "scrape_call" /\ mpc # "done"
      THEN open \subseteq OwnSessions(methods[mi])
      ELSE open = {}

\* back in scrape() after an exception raised while the context was being created
C8_Witness ==
    /\ pc = "scrape_call" /\ mpc = "done"
    /\ local = Exc("new_context")
    /\ open = {}

\* C9: the message of the terminal error carries the number of strategies attempted.
C9_MessageCarriesCount ==
    outcome.kind = "raise" =>
        \E k \in 1..Len(outcome.error) : outcome.error[k] = ToString(Len(invoked))

\* C10: scrape() terminates: after at most one attempt of each strategy of the list it
\* has returned or raised, and the loop never goes back to an earlier strategy.
C10_Terminates ==
    /\ <>ScrapeEnded
    /\ [](Len(invoked) <= Len(BuildMethods(HAS_PLAYWRIGHT, HAS_UC)))
    /\ [][(pc \in {"scrape_for", "scrape_call"}) => (mi' >= mi)]_vars

C10_Witness == outcome.kind = "raise" /\ Len(invoked) = 5

(***************************************************************************)
(* Properties of the structured abstract and of the field extractors       *)
(***************************************************************************)
\* the paragraphs' texts joined by single spaces
JoinedParagraphs(a, b) == Strip(a) \o << WS >> \o Strip(b)

\* C11: a heading opens a section with an empty body and every paragraph up to the next
\* heading is appended to it, joined by a single space: a section with two paragraphs
\* holds the text of both, in order.
C11_ParagraphsAppended ==
    IsPresent(_structured_abstract) =>
        /\ \A l \in Labels :
             soup.doc = WithAbstract(<< H3(l) >>) =>
                 _structured_abstract[1] = << [label |-> l, body |-> << >>] >>
        /\ \A l \in {"Results", "Participants"} : \A a, b \in FewBodies \ {<< >>} :
             soup.doc = WithAbstract(<< H3(l), P(a), P(b) >>) =>
                 _structured_abstract[1] = << [label |-> l, body |-> JoinedParagraphs(a, b)] >>

\* C12: within one ContentExtractor the metadata is parsed at most once, whether the
\* mapping is empty or not; once the cache is set, every call returns that mapping.
C12_ParsedOnce ==
    /\ parses <= 1
    /\ IsPresent(_structured_abstract) =>
         /\ parses = 1
         /\ _get_structured_abstract(_structured_abstract, soup.doc) = _structured_abstract[1]
         /\ _structured_abstract[1] = Structured(soup.doc)
    /\ (pc = "extract_all" /\ xk > 5) => parses = 1

\* all six fields extracted from a page whose mapping is empty, after one parse
C12_Witness ==
    /\ article_data.kind = "return"
    /\ _structured_abstract = Some(<< >>)
    /\ IsPresent(soup.doc.citation_abstract)
    /\ parses = 1

\* the patterns of a field's fallback path
FallbackPatterns(key) ==
    CASE key = "population" -> << PopFallback1, PopFallback2, PopFallback3 >>
      [] key = "intervention" -> << IntFallback1, IntFallback2, IntFallback3 >>
      [] key = "setting" -> << SetFallback1, SetFallback2, SetFallback3 >>
      [] key = "primary_outcome" -> << OutFallback1, OutFallback2, OutFallback3 >>
      [] key \in {"finding_1", "finding_2"} -> << ResultsSpan >>

\* the value a field's fallback path gives for the text of the abstract element
FallbackValue(key, abstract) ==
    CASE key = "finding_1" ->
           LET f == FindingFromAbstract(abstract, 1)
           IN  IF IsPresent(f) THEN _limit_words(f[1], limits[key]) ELSE Sentinel(key)
      [] key = "finding_2" ->
           LET f == FindingFromAbstract(abstract, 2)
           IN  IF IsPresent(f) THEN _limit_words(f[1], limits[key]) ELSE Sentinel(key)
      [] OTHER -> Fallback(abstract, FallbackPatterns(key), limits[key], Sentinel(key))

NoFallbackMatch(key, abstract) ==
    \A i \in 1..Len(FallbackPatterns(key)) : ~Search(abstract, FallbackPatterns(key)[i]).ok

\* C13: for a document without a citation_abstract element the structured abstract is the
\* empty mapping and no field extractor raises; each of the six fields is what its regex
\* fallback gives for the abstract text, and its sentinel when no pattern matches, as
\* when there is no abstract text at all.
C13_MissingStructured ==
    ~IsPresent(soup.doc.citation_abstract) =>
        LET abstract == AbstractElement(soup.doc, 1) IN
        /\ IsPresent(_structured_abstract) => _structured_abstract[1] = << >>
        /\ article_data.kind = "raise" => ~UsesStructured(xk)
        /\ \A key \in FieldKeys :
             JustExtracted(key) =>
                 /\ Extracted(key) = FallbackValue(key, abstract)
                 /\ NoFallbackMatch(key, abstract) => Extracted(key) = Sentinel(key)
                 /\ abstract = << >> => Extracted(key) = Sentinel(key)

\* a page without the metadata element whose abstract text gives the fallback a
\* population and no intervention
C13_Witness ==
    /\ ~IsPresent(soup.doc.citation_abstract)
    /\ article_data.kind = "return"
    /\ _structured_abstract = Some(<< >>)
    /\ AbstractElement(soup.doc, 1) # << >>
    /\ article_data.data["population"] # Sentinel("population")
    /\ article_data.data["intervention"] = Sentinel("intervention")

\* "500 adults aged 60-75 with hypertension."
AdultsSentence ==
    << "500", WS, "adults", WS, "aged", WS, "60", "-", "75", WS, "with", WS, "hypertension",
       DOT >>

\* C14: for <h3>Participants</h3><p>500 adults aged 60-75 with hypertension.</p> the
\* population (limit 15) is exactly the section text, trailing period included.
C14_RoundTrip ==
    (/\ soup.doc = WithAbstract(<< H3("Participants"), P(AdultsSentence) >>)
     /\ HasExtracted("population"))
        => Extracted("population") = AdultsSentence

\* the elements of the citation_abstract fragment of the page
Fragment(doc) ==
    IF IsPresent(doc.citation_abstract) /\ IsPresent(doc.citation_abstract[1])
      THEN doc.citation_abstract[1][1]
      ELSE << >>

IsMarked(sentence) == sentence \in MarkedSentences

\* C16: for a Results section, finding_k is the k-th of the sentences that carry a
\* statistic, in their order, whenever there are at least k of them: of four sentences
\* with a percentage or p-value in the first and third only, finding_1 is the first and
\* finding_2 the third.
C16_OrdinalFindings ==
    LET elems == Fragment(soup.doc) IN
    (/\ JustExtracted("finding_1") \/ JustExtracted("finding_2")
     /\ Len(elems) = 2 /\ elems[1] = H3("Results")) =>
        LET k == IF JustExtracted("finding_1") THEN 1 ELSE 2
            text == elems[2].body
        IN  \A seq \in SentenceSeqs : \A final \in {<< >>, << DOT >>} :
                (/\ Len(text) >= Len(seq[1])
                 /\ SubSeq(text, 1, Len(seq[1])) = seq[1]
                 /\ text = ResultsText(seq, final)) =>
                    LET marked == SelectSeq(seq, IsMarked)
                    IN  Len(marked) >= k => Extracted(ExtractorKeys[Len(values)]) = marked[k]

\* "mortality was 2.5%. alpha beta. gamma p = 0.5. alpha beta."
FourSentences ==
    << << "mortality", WS, "was", WS, "2", DOT, "5", "%" >>, T(<< "alpha", "beta" >>),
       << "gamma", WS, "p", WS, "=", WS, "0", DOT, "5" >>, T(<< "alpha", "beta" >>) >>

\* the four sentences of which the first and third carry a statistic
C16_Witness ==
    /\ Fragment(soup.doc) = << H3("Results"), P(ResultsText(FourSentences, << DOT >>)) >>
    /\ article_data.kind = "return"
    /\ article_data.data["finding_1"] = FourSentences[1]
    /\ article_data.data["finding_2"] = FourSentences[3]

\* the sentences of the Results section: the non-empty pieces between periods that are
\* followed by whitespace or end the text
ResultsSentences(st) ==
    SelectSeq(StripAll(Split(Lookup(st, "Results"), SentenceEnd)), NonEmpty)

\* C17: with a Results section that has fewer than k sentences carrying a statistic,
\* finding_k is the k-th sentence of the Results text; with fewer than k sentences in it,
\* finding_k is 'Finding k not found', never text from outside the Results section.
C17_WithinResults ==
    \A k \in {1, 2} :
        LET key == IF k = 1 THEN "finding_1" ELSE "finding_2" IN
        (/\ JustExtracted(key)
         /\ IsPresent(_structured_abstract)
         /\ HasKey(_structured_abstract[1], "Results")) =>
            LET sentences == ResultsSentences(_structured_abstract[1])
                marked == SelectSeq(sentences, HasStructMarker)
            IN  Len(marked) < k =>
                    IF Len(sentences) >= k
                      THEN Extracted(key) = _limit_words(sentences[k], FindingLimit)
                      ELSE Extracted(key) = FindingNotFound(k)

\* the candidate labels of a field, in the order of its loop
CandidateKeys(key) ==
    CASE key = "population" -> PopulationKeys
      [] key = "intervention" -> InterventionKeys
      [] key = "setting" -> SettingKeys
      [] key = "primary_outcome" -> PrimaryOutcomeKeys

\* the field extractor applied to a structured abstract and a page
FieldOf(key, st, doc) ==
    CASE key = "population" -> _extract_population(st, doc)
      [] key = "intervention" -> _extract_intervention(st, doc)
      [] key = "setting" -> _extract_setting(st, doc)
      [] key = "primary_outcome" -> _extract_primary_outcome(st, doc)

\* the structured abstract that holds the section of one label and nothing else
OnlySection(st, label) == << [label |-> label, body |-> Lookup(st, label)] >>

\* C18: for population, intervention, setting and primary_outcome the first candidate
\* label present in the structured abstract decides: the value comes from that section's
\* body alone, whatever the other sections and the page hold, and the regex fallback over
\* the abstract text is taken only when no candidate label is present.
C18_FirstLabelDecides ==
    \A key \in {"population", "intervention", "setting", "primary_outcome"} :
        (JustExtracted(key) /\ IsPresent(_structured_abstract)) =>
            LET st == _structured_abstract[1]
                keys == CandidateKeys(key)
                present == {i \in 1..Len(keys) : HasKey(st, keys[i])}
            IN  IF present # {}
                  THEN LET first == CHOOSE i \in present : \A j \in present : i <= j
                       IN  Extracted(key) = FieldOf(key, OnlySection(st, keys[first]), EmptyDoc)
                  ELSE Extracted(key) = FallbackValue(key, _get_abstract_text(st, soup.doc))

\* Population (third candidate) comes first in the page and Participants (first
\* candidate) second: the population is the first sentence of the Participants section
C18_Witness ==
    /\ Fragment(soup.doc) =
           << H3("Population"), P(T(<< "40", "patients", "with", "hypertension" >>)),
              H3("Participants"), P(T(<< "Trial", "conducted", "in", "hospital" >>) \o << DOT >>) >>
    /\ article_data.kind = "return"
    /\ article_data.data["population"] = T(<< "Trial", "conducted", "in", "hospital" >>)

\* "mortality was 2.5%"
DecimalSentence == << "mortality", WS, "was", WS, "2", DOT, "5", "%" >>

\* "Results: mortality was 5%. gamma 5%; delta."
SemicolonAbstract ==
    << "Results", COLON, WS, "mortality", WS, "was", WS, "5", "%", DOT, WS,
       "gamma", WS, "5", "%", SEMI, WS, "delta", DOT >>

\* C19: every sentence split of the extractor ends a sentence at a period followed by
\* whitespace or by the end of the text: the period of 2.5 does not end the first sentence
\* of a section, and a semicolon does not end a sentence of the fallback findings.
C19_SentenceBoundary ==
    /\ (/\ JustExtracted("intervention")
         /\ Fragment(soup.doc) = << H3("Interventions"), P(DecimalSentence \o << DOT >>) >>)
            => Extracted("intervention") = DecimalSentence
    /\ (/\ JustExtracted("primary_outcome")
         /\ Fragment(soup.doc) =
                << H3("Main Outcomes and Measures"), P(DecimalSentence \o << DOT >>) >>)
            => Extracted("primary_outcome") = DecimalSentence
    /\ (/\ JustExtracted("finding_2")
         /\ ~IsPresent(soup.doc.citation_abstract)
         /\ AbstractElement(soup.doc, 1) = SemicolonAbstract)
            => Extracted("finding_2") = << "gamma", WS, "5", "%", SEMI, WS, "delta" >>

\* C20: a paragraph before any heading is dropped without error: it is attached to no
\* section, it makes no key, and the sections after it are parsed as if it were absent.
C20_LeadingParagraphDropped ==
    LET elems == Fragment(soup.doc) IN
    (IsPresent(_structured_abstract) /\ elems # << >> /\ elems[1].tag = "p") =>
        LET st == _structured_abstract[1] IN
        /\ st = Structured(WithAbstract(Tail(elems)))
        /\ {st[i].label : i \in 1..Len(st)} =
              {elems[j].label : j \in {m \in 1..Len(elems) : elems[m].tag = "h3"}}
        /\ \A i \in 1..Len(st) :
              st[i].body \in {<< >>} \cup {Strip(elems[j].body) : j \in 2..Len(elems)}
        /\ article_data.kind = "raise" => ~UsesStructured(xk)

\* "<p>alpha beta.</p><h3>Participants</h3><p>40 patients with hypertension</p>": the
\* mapping holds the Participants section alone
C20_Witness ==
    /\ Fragment(soup.doc) =
           << P(T(<< "alpha", "beta" >>) \o << DOT >>), H3("Participants"),
              P(T(<< "40", "patients", "with", "hypertension" >>)) >>
    /\ article_data.kind = "return"
    /\ _structured_abstract =
           Some(<< [label |-> "Participants",
                    body |-> T(<< "40", "patients", "with", "hypertension" >>)] >>)

\* no citation_publication_date meta, no article:published_time meta, no time[datetime]
NoDateMetadata(doc) ==
    /\ ~IsPresent(doc.citation_publication_date)
    /\ ~IsPresent(doc.published_time)
    /\ ~IsPresent(doc.time_el)

\* C26: on a document without date metadata _extract_date() does not raise: the date is
\* that of the '.meta-article-date' element or, without one, the current month and year.
C26_DateFallback ==
    NoDateMetadata(soup.doc) =>
        /\ ~(article_data.kind = "raise" /\ ExtractorKeys[xk] = "publication_date")
        /\ JustExtracted("publication_date") =>
               values[Len(values)] =
                   IF IsPresent(soup.doc.date_el)
                     THEN _format_date(Some(soup.doc.date_el[1]))
                     ELSE CurrentMonthYear

\* the h1 selectors of the list that match an element of the page
MatchingH1(doc) == { k \in 1..4 : IsPresent(doc.h1[k]) }

\* C27: the title selectors are tried in the listed order and the first match wins: an h1
\* element (h1.meta-article-title first) gives the title when the page also has an
\* og:title meta; the og:title meta and then the title element are used only when none
\* of the four h1 selectors matches, and with no match the title is the sentinel.
C27_TitleSelectorOrder ==
    JustExtracted("title") =>
        LET doc == soup.doc
            h1s == MatchingH1(doc)
        IN  IF h1s # {}
              THEN values[1] = Strip(doc.h1[CHOOSE k \in h1s : \A j \in h1s : k <= j][1])
            ELSE IF IsPresent(doc.og_title)
              THEN IsPresent(doc.og_title[1]) => values[1] = CleanTitle(doc.og_title[1][1])
            ELSE IF IsPresent(doc.title_el)
              THEN values[1] = CleanTitle(doc.title_el[1])
            ELSE values[1] = T(<< "Article", "Title", "Not", "Found" >>)

\* every author the page lists, in order: the citation_author metas or, without any,
\* the elements of the first author selector that matches
ListedAuthors(doc) ==
    IF doc.citation_author # << >>
      THEN [i \in 1..Len(doc.citation_author) |->
               IF IsPresent(doc.citation_author[i]) THEN doc.citation_author[i][1] ELSE << >>]
    ELSE IF \E k \in 1..Len(doc.author_els) : doc.author_els[k] # << >>
      THEN LET k == CHOOSE k \in 1..Len(doc.author_els) :
                        /\ doc.author_els[k] # << >>
                        /\ \A j \in 1..(k - 1) : doc.author_els[j] = << >>
           IN  [i \in 1..Len(doc.author_els[k]) |-> Strip(doc.author_els[k][i])]
    ELSE << >>

\* C28: the authors are the first three names joined by ', ', followed by ' et al.'
\* exactly when the page lists more than three authors (three authors: the three names
\* and no ' et al.'); without authors the value is 'Authors Not Found'.
C28_FirstThreeAuthors ==
    (JustExtracted("authors") /\ \A i \in 1..Len(soup.doc.citation_author) :
                                      IsPresent(soup.doc.citation_author[i])) =>
        LET listed == ListedAuthors(soup.doc) IN
        values[2] =
            IF listed = << >> THEN T(<< "Authors", "Not", "Found" >>)
            ELSE Join(Take(listed, 3), << ",", WS >>)
                 \o (IF Len(listed) > 3 THEN << WS, "et", WS, "al", DOT >> ELSE << >>)

\* no sentence occurs twice
PairwiseDistinct(q) == \A i, j \in 1..Len(q) : i # j => q[i] # q[j]

\* C25: when the Results section has at least two sentences, all different, finding_1
\* and finding_2 are different sentences: finding_2 does not repeat finding_1, also when
\* one sentence only carries a statistic and finding_2 is chosen by position.
C25_FindingsDiffer ==
    (/\ JustExtracted("finding_2")
     /\ HasKey(_structured_abstract[1], "Results")) =>
        LET sentences == ResultsSentences(_structured_abstract[1]) IN
        (Len(sentences) >= 2 /\ PairwiseDistinct(sentences)) =>
            Extracted("finding_1") # Extracted("finding_2")

\* a call of extract_all() on an extractor whose earlier call has returned
SecondCall == pc = "extract_all" /\ article_data.kind = "return"

\* C29: extraction is repeatable: in a second extract_all() on the same extractor, served
\* from the cached mapping without a new parse, each of the six fields has the value the
\* first call returned, and in every call each field has the value a fresh extractor on
\* the same document gives for that field alone.
C29_Repeatable ==
    (pc = "extract_all" /\ Len(values) >= 5) =>
        LET k == Len(values)
            key == ExtractorKeys[k]
        IN  /\ values[k] = ExtractKey(k, _get_structured_abstract(Absent, soup.doc),
                                       soup.doc).value
            /\ SecondCall =>
                  /\ values[k] = article_data.data[key]
                  /\ parses = 1

\* the second call has evaluated all ten entries of a page with a Results section
C29_Witness ==
    /\ SecondCall
    /\ Len(values) = Len(ExtractorKeys)
    /\ HasKey(_structured_abstract[1], "Results")
    /\ values[9] # FindingNotFound(1)
    /\ values[9] = article_data.data["finding_1"]

(***************************************************************************)
(* Properties of _limit_words                                              *)
(***************************************************************************)
\* C15: when text has more than max_words whitespace-delimited words, _limit_words gives
\* the first max_words words joined by single spaces with '...' appended; otherwise it
\* gives text itself, unchanged.
C15_LimitWords ==
    limited.called =>
        LET words == SplitWords(limited.text)
            n == limited.max_words
        IN  IF Len(words) > n
              THEN /\ limited.result = Join(SubSeq(words, 1, n), << WS >>) \o ELLIPSIS
                   /\ WordCount(limited.result) = n
                   /\ \A i \in 1..(n - 1) : SplitWords(limited.result)[i] = << Word(i) >>
                   /\ SplitWords(limited.result)[n] = << Word(n) >> \o ELLIPSIS
              ELSE limited.result = limited.text

\* a text of 20 words cut to 15, its words separated by two spaces
C15_Witness ==
    /\ limited.called
    /\ WordCount(limited.text) = 20
    /\ limited.max_words = 15
    /\ limited.text = Words(20, << WS, WS >>)
    /\ limited.result = Words(15, << WS >>) \o ELLIPSIS

\* C30: _limit_words is idempotent and adds no word: for a limit of 1 or more, applying
\* it to its own result with the same limit gives that result again, and the result has
\* at most as many whitespace-delimited words as the text.
C30_Idempotent ==
    /\ limited.called =>
          /\ limited.max_words >= 1
          /\ WordCount(limited.result) <= WordCount(limited.text)
    /\ IsPresent(limited.again) =>
          /\ limited.again[1] = limited.result
          /\ WordCount(limited.again[1]) <= WordCount(limited.result)

\* a text of 21 words cut to 10 and the result passed through the function again
C30_Witness ==
    /\ IsPresent(limited.again)
    /\ WordCount(limited.text) = MaxWords
    /\ limited.max_words = SettingLimit
    /\ Truncated(limited.result)
    /\ limited.again[1] = Words(SettingLimit, << WS >>) \o ELLIPSIS

(***************************************************************************)
(* Further properties of the acquisition engine                            *)
(***************************************************************************)
\* the strategies that drive a browser
BrowserStrategies == {PLAYWRIGHT, UNDETECTED, HEADLESS, FULL}

\* C21: the list of scrape() has the plain HTTP request last, after every
\* browser-automation strategy: the request is attempted only when each available
\* browser strategy has been attempted and has failed.
C21_RequestLast ==
    /\ methods # << >> => methods[Len(methods)] = REQUESTS
    /\ \A k \in 1..Len(invoked) :
         invoked[k] = REQUESTS =>
             \A j \in 1..Len(methods) :
                 methods[j] \in BrowserStrategies =>
                     /\ j < k
                     /\ delivered[j].name = methods[j]
                     /\ Failed(delivered[j])

\* the caller holds the instance and no call is running
BetweenCalls == pc = "client"

\* C22: after scrape() has raised the terminal error the scraper holds no acquired
\* document, and the document a later get_soup() on the instance returns is never built
\* from content the success predicate rejected: get_soup() acquires again or raises.
C22_NoRejectedDocument ==
    /\ (BetweenCalls /\ outcome.kind = "raise") => ~Truthy(html_content)
    /\ soup # NoSoup => Accepts(soup.of)

\* C23: between any two calls on one instance, when successful_method names a strategy,
\* html_content is what that strategy returned in the most recent scrape() and is longer
\* than 500 characters; after a scrape() that raised, successful_method names none.
C23_MethodMatchesContent ==
    BetweenCalls =>
        /\ successful_method # None =>
              /\ html_content.len > MinContent
              /\ \E k \in 1..Len(delivered) :
                    /\ delivered[k].name = successful_method
                    /\ delivered[k].result = Value(html_content)
        /\ outcome.kind = "raise" => successful_method = None

\* C24: a failing teardown never changes a strategy's outcome: in every browser
\* strategy, page content obtained in the try block (and, for Playwright, passing its
\* own length check) is what the strategy returns to scrape(), also when
\* driver.quit() / browser.close() raises.
C24_TeardownNeverChangesOutcome ==
    \A k \in 1..Len(delivered) :
        LET d == delivered[k] IN
        ( /\ d.name \in BrowserStrategies
          /\ d.obtained # NoneContent
          /\ d.name = PLAYWRIGHT => PlaywrightAccepts(d.obtained.len) ) =>
            d.result = Value(d.obtained)

====
